---- MODULE Spec2Model ----
(***************************************************************************)
(* Model of the object-storage layer of the DJJS event-reporting backend   *)
(* (app/services/s3_service.go): the process-wide client globals, the      *)
(* lazy initialisation InitializeS3 with its verification probes, and the  *)
(* caller-facing operations UploadFile, GetPresignedURL, DeleteFile and    *)
(* GetObjectMetadata, each run by a request goroutine.                     *)
(*                                                                         *)
(* Go strings are TLA+ strings; fmt.Errorf / fmt.Sprintf are string        *)
(* concatenation, so an error is the message the code builds.  A Go        *)
(* pointer is a sequence: <<>> is nil, <<v>> points to v.                  *)
(***************************************************************************)
EXTENDS Integers, Sequences, FiniteSets, TLC

\* ------------------------------------------------------------------------
\* Bounds of the model
\* ------------------------------------------------------------------------

\* time.Now().Unix() takes the values 0..MaxTime
MaxTime == 1

\* number of calls (requests, or the startup call) in one execution; a
\* goroutine that has returned makes room for the next call
MaxRequests == 2

\* the goroutines: two calls can be in progress at a time
Procs == {1, 2}

\* ------------------------------------------------------------------------
\* Values
\* ------------------------------------------------------------------------

Nil == <<>>

\* the nil error
NoErr == "<nil>"

\* a goroutine that has not returned yet
Pending == "<pending>"

\* the four required settings, in the order InitializeS3 validates them
RequiredVars ==
    <<"AWS_ACCESS_KEY_ID", "AWS_SECRET_ACCESS_KEY", "AWS_S3_BUCKET_NAME", "AWS_REGION">>

\* the ambient temporary-credential variables InitializeS3 unsets
tempCredVars ==
    <<"AWS_SESSION_TOKEN", "AWS_SECURITY_TOKEN", "AWS_ROLE_ARN", "AWS_WEB_IDENTITY_TOKEN_FILE">>

Range(s) == {s[i] : i \in 1..Len(s)}

EnvVars == Range(RequiredVars) \cup Range(tempCredVars)

\* access key ids a deployment may configure: a permanent and a temporary one
ConfiguredKeyIds == {"AKIAQ4STATIC01", "ASIAX9STATIC02"}

\* an access key id of an ambient credential source (instance role)
AmbientKeyIds == {"ASIAZ7ROLE03"}

\* the sets of temporary-credential variables found set at process start
AmbientSets == {T \in SUBSET Range(tempCredVars) : Cardinality(T) \in {0, 1, 4}}

\* failures the storage service reports
Causes == {"AccessDenied", "RequestTimeout"}

\* failures of the SDK configuration / credential chain
SdkCauses == {"sdk failure"}

\* ------------------------------------------------------------------------
\* String helpers (package strings, path/filepath)
\* ------------------------------------------------------------------------

HasPrefix(s, prefix) ==
    /\ Len(s) >= Len(prefix)
    /\ SubSeq(s, 1, Len(prefix)) = prefix

Contains(s, sub) ==
    \E i \in 1..(Len(s) - Len(sub) + 1) : SubSeq(s, i, i + Len(sub) - 1) = sub

\* index of the first occurrence of the one-character string c in s, 0 if none
Index(s, c) ==
    LET I == {i \in 1..Len(s) : SubSeq(s, i, i) = c}
    IN  IF I = {} THEN 0 ELSE CHOOSE i \in I : \A j \in I : i <= j

\* index of the last occurrence of the one-character string c in s, 0 if none
LastIndex(s, c) ==
    LET I == {i \in 1..Len(s) : SubSeq(s, i, i) = c}
    IN  IF I = {} THEN 0 ELSE CHOOSE i \in I : \A j \in I : j <= i

\* variant of Ext that takes the suffix beginning at the first dot
Ext_FirstDot(path) ==
    IF Index(path, ".") = 0 THEN "" ELSE SubSeq(path, Index(path, "."), Len(path))

\* filepath.Ext: the suffix beginning at the final dot in the final
\* slash-separated element of path; empty if there is no dot
Ext(path) ==
    LET d == LastIndex(path, ".")
        s == LastIndex(path, "/")
    IN  IF d > s THEN SubSeq(path, d, Len(path)) ELSE ""

UpperCase == "ABCDEFGHIJKLMNOPQRSTUVWXYZ"

LowerCase == "abcdefghijklmnopqrstuvwxyz"

\* strings.ToLower, on ASCII
RECURSIVE ToLower(_)
ToLower(s) ==
    IF s = "" THEN ""
    ELSE LET c == SubSeq(s, 1, 1)
             i == Index(UpperCase, c)
         IN  (IF i = 0 THEN c ELSE SubSeq(LowerCase, i, i))
               \o ToLower(SubSeq(s, 2, Len(s)))

\* strings.Split(s, sep)[0]: what precedes the first sep, all of s if none
SplitFirst(s, sep) ==
    IF Index(s, sep) = 0 THEN s ELSE SubSeq(s, 1, Index(s, sep) - 1)

\* strings.TrimSpace, on ASCII white space
TrimSpace(s) ==
    LET I == {i \in 1..Len(s) : SubSeq(s, i, i) \notin {" ", "\t", "\n", "\r"}}
    IN  IF I = {} THEN ""
        ELSE SubSeq(s, CHOOSE i \in I : \A j \in I : i <= j,
                       CHOOSE i \in I : \A j \in I : j <= i)

\* index of the first occurrence of sub in s, 0 if none
IndexOf(s, sub) ==
    LET I == {i \in 1..(Len(s) - Len(sub) + 1) : SubSeq(s, i, i + Len(sub) - 1) = sub}
    IN  IF I = {} THEN 0 ELSE CHOOSE i \in I : \A j \in I : i <= j

\* strings.Split(s, sep), sep not empty
RECURSIVE Split(_, _)
Split(s, sep) ==
    LET i == IndexOf(s, sep)
    IN  IF i = 0 THEN <<s>>
        ELSE <<SubSeq(s, 1, i - 1)>> \o Split(SubSeq(s, i + Len(sep), Len(s)), sep)

\* the character of the code n, for the printable codes but 96
Chr(n) ==
    LET low == " !\"#$%&'()*+,-./0123456789:;<=>?@ABCDEFGHIJKLMNOPQRSTUVWXYZ[\\]^_"
        high == "abcdefghijklmnopqrstuvwxyz{|}~"
    IN  IF n \in 32..95 THEN SubSeq(low, n - 31, n - 31)
        ELSE SubSeq(high, n - 96, n - 96)

\* the value of the hexadecimal digit c, -1 if c is none
Unhex(c) == IF Len(c) = 1 THEN Index("0123456789abcdef", ToLower(c)) - 1 ELSE -1

\* net/url: every % of s is followed by two hexadecimal digits
EscapesValid(s) ==
    \A i \in 1..Len(s) :
        SubSeq(s, i, i) = "%" =>
            /\ i + 2 <= Len(s)
            /\ Unhex(SubSeq(s, i + 1, i + 1)) >= 0
            /\ Unhex(SubSeq(s, i + 2, i + 2)) >= 0

\* net/url unescape in query mode of a string whose escapes are valid: %XX
\* becomes the character of that code (printable ASCII here), + a space
RECURSIVE Unescaped(_)
Unescaped(s) ==
    IF s = "" THEN ""
    ELSE LET c == SubSeq(s, 1, 1)
         IN  IF c = "%"
             THEN LET n == 16 * Unhex(SubSeq(s, 2, 2)) + Unhex(SubSeq(s, 3, 3))
                  IN  Chr(n) \o Unescaped(SubSeq(s, 4, Len(s)))
             ELSE (IF c = "+" THEN " " ELSE c) \o Unescaped(SubSeq(s, 2, Len(s)))

\* url.QueryUnescape(s): the decoded string and whether decoding failed
QueryUnescape(s) ==
    IF EscapesValid(s) THEN [val |-> Unescaped(s), err |-> NoErr]
    ELSE [val |-> "", err |-> "invalid URL escape"]

\* the closure maskKey of InitializeS3
maskKey(key) ==
    IF Len(key) > 8 THEN SubSeq(key, 1, 8) \o "***" ELSE key \o "***"

\* ------------------------------------------------------------------------
\* State
\* ------------------------------------------------------------------------

VARIABLES
    env,            \* process environment: variable name -> value ("" = unset)
    S3Client,       \* global *s3.Client
    S3Uploader,     \* global *manager.Uploader
    S3BucketName,   \* global string
    S3Region,       \* global string
    DB,             \* global config.DB
    halted,         \* the process has exited (log.Fatal)
    startup,        \* what InitializeDependencies returned to the program
    objects,        \* the bucket: key -> metadata of the stored object
    now,            \* the latest value time.Now().Unix() has returned
    uuids,          \* number of identifiers uuid.New() has produced
    requests,       \* number of calls made so far
    hist,           \* history: what the InitializeS3 runs so far have done
    pc,             \* position of each goroutine
    op,             \* the exported function each goroutine is running
    arg,            \* its arguments
    loc,            \* locals of its InitializeS3 / VerifyS3Connection run,
                    \* with the probes the run has issued
    calls,          \* the storage API calls it has issued for its caller
    last            \* the return, if any, that the latest step made

globals == <<S3Client, S3Uploader, S3BucketName, S3Region>>

vars == <<env, S3Client, S3Uploader, S3BucketName, S3Region, DB, halted, startup,
          objects, now, uuids, requests, hist, pc, op, arg, loc, calls, last>>

\* the functions that lazily initialise storage
CallerOps == {"UploadFile", "GetPresignedURL", "DeleteFile", "GetObjectMetadata"}

\* an object that is in the bucket before the process starts
OldKey == "images/old.jpg"

OldMeta == [filename |-> "old.jpg"]

\* keys requests ask for
ArgKeys(o) == IF o = "GetPresignedURL" THEN {"", OldKey} ELSE {OldKey}

FileNames == {"photo.jpg"}

Folders == {"images"}

\* mediaList, i, result: the list ConvertBranchMediaToPresignedURLs was called
\* with, the position of its loop (0: the call is not made by it) and the
\* list it has built; live: the keys that held an object when it was called;
\* signed: the positions for which GetPresignedURL returned a URL, each with
\* the URL
NoArg ==
    [s3Key |-> "", fileName |-> "", folder |-> "", contentType |-> "", size |-> 0,
     mediaList |-> <<>>, i |-> 0, result |-> <<>>, live |-> {}, signed |-> {}]

NoLoc ==
    [accessKeyID |-> "", secretAccessKey |-> "", bucketName |-> "", region |-> "",
     cfg |-> Nil, actualCreds |-> Nil, warned |-> FALSE, assigned |-> FALSE,
     verifyErr |-> Pending, probes |-> <<>>, before |-> {}]

\* inits: assignments of S3Client so far; checked: some InitializeS3 run has
\* passed the check of the required settings; okInit: some run has returned
\* nil; failedInit: some run has returned an error
\* uploads: the keys UploadFile has returned, in order, each with whether the
\* bucket held no object under the key when it was written and the file name
\* it was called with; watch: the runs of VerifyS3Connection note in their
\* local before the test keys they find in the bucket when they begin, and
\* deleted collects the keys DeleteFile has returned nil for
NoHist ==
    [inits |-> 0, checked |-> FALSE, okInit |-> FALSE, failedInit |-> FALSE,
     uploads |-> <<>>, watch |-> FALSE, deleted |-> {}]

\* what a step lets the outside see.  A return of InitializeS3 to its caller
\* (kind "init": run holds the locals of the run, initErr its result, and err,
\* val what the caller in turn returned when it gave up); a return of a
\* caller-facing function (kind "return"; "panic" when it panicked); the log
\* lines of the loop over tempCredVars (kind "unset": the variables unset)
Event(kind, p, run, ierr, err, val, cs) ==
    [kind |-> kind, proc |-> p, op |-> op[p], arg |-> arg[p], run |-> run,
     initErr |-> ierr, err |-> err, val |-> val, calls |-> cs, unset |-> {},
     filename |-> ""]

NoEvent ==
    [kind |-> "none", proc |-> 0, op |-> "none", arg |-> NoArg, run |-> NoLoc,
     initErr |-> Pending, err |-> Pending, val |-> "", calls |-> <<>>, unset |-> {},
     filename |-> ""]

Init ==
    /\ \E a \in ConfiguredKeyIds \cup {""}, s \in {"", "wJalrSECRET"},
          b \in {"", "djjs-media"}, r \in {"", "ap-south-1"},
          T \in AmbientSets :
            env = [v \in EnvVars |->
                     CASE v = "AWS_ACCESS_KEY_ID" -> a
                       [] v = "AWS_SECRET_ACCESS_KEY" -> s
                       [] v = "AWS_S3_BUCKET_NAME" -> b
                       [] v = "AWS_REGION" -> r
                       [] OTHER -> IF v \in T THEN "ambient" ELSE ""]
    /\ S3Client = Nil
    /\ S3Uploader = Nil
    /\ S3BucketName = ""
    /\ S3Region = ""
    /\ DB = Nil
    /\ halted = FALSE
    /\ startup = "none"
    /\ objects = [k \in {OldKey} |-> OldMeta]
    /\ now = 0
    /\ uuids = 0
    /\ requests = 0
    /\ hist = NoHist
    /\ pc = [p \in Procs |-> "idle"]
    /\ op = [p \in Procs |-> "none"]
    /\ arg = [p \in Procs |-> NoArg]
    /\ loc = [p \in Procs |-> NoLoc]
    /\ calls = [p \in Procs |-> <<>>]
    /\ last = NoEvent

\* the goroutine ends and is free for the next call
Ends(p) ==
    /\ pc' = [pc EXCEPT ![p] = "idle"]
    /\ op' = [op EXCEPT ![p] = "none"]
    /\ arg' = [arg EXCEPT ![p] = NoArg]
    /\ loc' = [loc EXCEPT ![p] = NoLoc]
    /\ calls' = [calls EXCEPT ![p] = <<>>]

\* part_001 line 144: the URL shows neither marker of a signature
SignatureMissing(presignedURL) ==
    ~Contains(presignedURL, "X-Amz-Signature") /\ ~Contains(presignedURL, "Signature=")

\* variant of Converted that hands out the stored URL of a record that has one
Converted_ReuseStored(result, media, presignedURL, err) ==
    IF media.FileURL # "" THEN Append(result, [media EXCEPT !.URL = media.FileURL])
    ELSE IF err # NoErr THEN result
    ELSE Append(result, [media EXCEPT !.FileURL = presignedURL, !.URL = presignedURL])

\* variant of Converted that keeps the items that failed, without URL
Converted_KeepFailed(result, media, presignedURL, err) ==
    IF err # NoErr THEN Append(result, media)
    ELSE Append(result, [media EXCEPT !.FileURL = presignedURL, !.URL = presignedURL])

\* ConvertBranchMediaToPresignedURLs, part_001 lines 137-154: the result list
\* after GetPresignedURL has returned presignedURL, err for media
Converted(result, media, presignedURL, err) ==
    IF err # NoErr THEN result
    ELSE IF SignatureMissing(presignedURL) THEN result
    ELSE Append(result, [media EXCEPT !.FileURL = presignedURL, !.URL = presignedURL])

\* variant of ConvertResumes that gives up the whole list at the first error
ConvertResumes_FailFast(p, presignedURL, err) ==
    IF err # NoErr
    THEN Ends(p)
    ELSE /\ pc' = [pc EXCEPT ![p] = "convert"]
         /\ op' = [op EXCEPT ![p] = "ConvertBranchMediaToPresignedURLs"]
         /\ arg' = [arg EXCEPT ![p].s3Key = "",
                               ![p].i = @ + 1,
                               ![p].result = Converted(@, arg[p].mediaList[arg[p].i],
                                                       presignedURL, err),
                               ![p].signed = @ \cup {<<arg[p].i, presignedURL>>}]
         /\ loc' = [loc EXCEPT ![p] = NoLoc]
         /\ calls' = [calls EXCEPT ![p] = <<>>]

\* GetPresignedURL returns presignedURL, err into the loop of
\* ConvertBranchMediaToPresignedURLs (part_001 lines 136-155), which goes on
\* to its next item
ConvertResumes(p, presignedURL, err) ==
    /\ pc' = [pc EXCEPT ![p] = "convert"]
    /\ op' = [op EXCEPT ![p] = "ConvertBranchMediaToPresignedURLs"]
    /\ arg' = [arg EXCEPT ![p].s3Key = "",
                          ![p].i = @ + 1,
                          ![p].result = Converted(@, arg[p].mediaList[arg[p].i],
                                                  presignedURL, err),
                          ![p].signed = IF err = NoErr
                                        THEN @ \cup {<<arg[p].i, presignedURL>>}
                                        ELSE @]
    /\ loc' = [loc EXCEPT ![p] = NoLoc]
    /\ calls' = [calls EXCEPT ![p] = <<>>]

\* a caller-facing function returns val, err: to the request handler, which
\* ends the goroutine, or to ConvertBranchMediaToPresignedURLs
Returns(p, val, err) ==
    IF arg[p].i = 0 THEN Ends(p) ELSE ConvertResumes(p, val, err)

\* line 179
TestKey(t) == "test-permission-check-" \o ToString(t)

\* line 195
TestUploadKey(t) == "test-upload-permission-" \o ToString(t) \o ".txt"

\* the keys verification runs use
TestKeys == {TestUploadKey(t) : t \in 0..MaxTime} \cup {TestKey(t) : t \in 0..MaxTime}

\* ------------------------------------------------------------------------
\* InitializeS3
\* ------------------------------------------------------------------------

\* what a caller-facing function returns when its InitializeS3 failed
WrapInitErr(err) == "failed to initialize S3: " \o err

\* InitializeS3, whose locals are run, returns err.  Its caller looks at the
\* result (lines 226-229, 281-283, 325-327, 380-382): on an error the
\* caller-facing function returns it wrapped, otherwise it goes on.
\* InitializeDependencies (lines 127-131) returns the error as it is.
InitReturns(p, run, err) ==
    /\ hist' = [hist EXCEPT !.okInit = @ \/ err = NoErr,
                            !.failedInit = @ \/ err # NoErr]
    /\ IF op[p] = "InitializeDependencies"
       THEN /\ startup' = IF err = NoErr THEN "ok" ELSE "failed"
            /\ last' = Event("init", p, run, err, err, IF err = NoErr THEN "deps" ELSE "",
                             <<>>)
            /\ Ends(p)
       ELSE /\ startup' = startup
            /\ IF err # NoErr
               THEN /\ last' = Event("init", p, run, err, WrapInitErr(err), "", calls[p])
                    /\ Returns(p, "", WrapInitErr(err))
               ELSE /\ last' = Event("init", p, run, err, Pending, "", calls[p])
                    /\ pc' = [pc EXCEPT ![p] = "body"]
                    /\ loc' = [loc EXCEPT ![p] = NoLoc]
                    /\ UNCHANGED <<op, arg, calls>>

\* InitializeS3 goes on to its next statement with the locals run
InitGoes(p, run, next) ==
    /\ pc' = [pc EXCEPT ![p] = next]
    /\ loc' = [loc EXCEPT ![p] = run]
    /\ last' = NoEvent
    /\ UNCHANGED <<op, arg, calls, startup, hist>>

\* variant of MissingConfig that checks the settings in the reverse order
MissingConfig_Reversed(a, s, b, r) ==
    IF r = "" THEN "AWS_REGION environment variable is required"
    ELSE IF b = "" THEN "AWS_S3_BUCKET_NAME environment variable is required"
    ELSE IF s = "" THEN "AWS_SECRET_ACCESS_KEY environment variable is required"
    ELSE IF a = "" THEN "AWS_ACCESS_KEY_ID environment variable is required"
    ELSE NoErr

\* the error for the first missing required setting, NoErr if none is missing
MissingConfig(a, s, b, r) ==
    IF a = "" THEN "AWS_ACCESS_KEY_ID environment variable is required"
    ELSE IF s = "" THEN "AWS_SECRET_ACCESS_KEY environment variable is required"
    ELSE IF b = "" THEN "AWS_S3_BUCKET_NAME environment variable is required"
    ELSE IF r = "" THEN "AWS_REGION environment variable is required"
    ELSE NoErr

\* variant of UnsetTempCreds that removes the two token variables only
UnsetTempCreds_TokensOnly(e) ==
    [v \in EnvVars |->
        IF v \in {"AWS_SESSION_TOKEN", "AWS_SECURITY_TOKEN"} THEN "" ELSE e[v]]

\* the environment after the loop over tempCredVars (os.Unsetenv of each
\* variable that has a value)
UnsetTempCreds(e) ==
    [v \in EnvVars |->
        IF v \in Range(tempCredVars) /\ e[v] # "" THEN "" ELSE e[v]]

\* lines 40-75: read the four settings and validate them; then unset the
\* temporary-credential variables
InitEnv(p) ==
    /\ pc[p] = "init_env"
    /\ LET a == env["AWS_ACCESS_KEY_ID"]
           s == env["AWS_SECRET_ACCESS_KEY"]
           b == env["AWS_S3_BUCKET_NAME"]
           r == env["AWS_REGION"]
           e == MissingConfig(a, s, b, r)
           run == [loc[p] EXCEPT !.accessKeyID = a, !.secretAccessKey = s,
                                 !.bucketName = b, !.region = r]
       IN  IF e # NoErr
           THEN /\ InitReturns(p, run, e)
                /\ env' = env
           ELSE /\ env' = UnsetTempCreds(env)
                /\ pc' = [pc EXCEPT ![p] = "init_config"]
                /\ loc' = [loc EXCEPT ![p] = run]
                /\ hist' = [hist EXCEPT !.checked = TRUE]
                /\ last' = [Event("unset", p, run, Pending, Pending, "", <<>>)
                              EXCEPT !.unset = {v \in EnvVars : env'[v] # env[v]}]
                /\ UNCHANGED <<op, arg, calls, startup>>
    /\ UNCHANGED <<globals, DB, halted, objects, now, uuids, requests>>

\* credentials.NewStaticCredentialsProvider(accessKeyID, secretAccessKey, "")
StaticCredentials(a, s) ==
    [AccessKeyID |-> a, SecretAccessKey |-> s, SessionToken |-> "",
     Source |-> "StaticCredentials"]

\* lines 84-89: the configuration LoadDefaultConfig is asked to build
StaticConfig(region, a, s) == [region |-> region, creds |-> StaticCredentials(a, s)]

\* the credentials cfg.Credentials.Retrieve may hand back: those of the
\* provider in the configuration, or those of an ambient source the SDK's
\* chain fell back to
ResolvedCredentials(cfg) ==
    {cfg.creds} \cup
    {[AccessKeyID |-> k, SecretAccessKey |-> "ambient-secret",
      SessionToken |-> "ambient-token", Source |-> "EC2RoleProvider"] : k \in AmbientKeyIds}

\* variant of CredentialsMatch that compares the kind of key only (its first
\* four characters)
CredentialsMatch_ByKind(actual, accessKeyID) ==
    SubSeq(actual.AccessKeyID, 1, 4) = SubSeq(accessKeyID, 1, 4)

\* line 118: the exact comparison of the resolved access key id
CredentialsMatch(actual, accessKeyID) == actual.AccessKeyID = accessKeyID

\* line 125
LooksTemporary(actual) == ~HasPrefix(actual.AccessKeyID, "AKIA")

\* line 121
MismatchErr(actual, accessKeyID) ==
    "credentials mismatch: SDK is using " \o maskKey(actual.AccessKeyID)
      \o " instead of " \o maskKey(accessKeyID) \o " from .env"

\* lines 77-130: build the client configuration (LoadDefaultConfig), retrieve
\* the credentials in effect and compare their access key id
InitConfig(p) ==
    /\ pc[p] = "init_config"
    /\ LET cfg == StaticConfig(loc[p].region, loc[p].accessKeyID, loc[p].secretAccessKey)
           built == [loc[p] EXCEPT !.cfg = <<cfg>>]
       IN  \/ \E c \in SdkCauses :
                InitReturns(p, loc[p], "failed to load AWS config: " \o c)
           \/ \E c \in SdkCauses :
                InitReturns(p, built, "failed to retrieve credentials: " \o c)
           \/ \E actual \in ResolvedCredentials(cfg) :
                IF ~CredentialsMatch(actual, loc[p].accessKeyID)
                THEN InitReturns(p, [built EXCEPT !.actualCreds = <<actual>>],
                                 MismatchErr(actual, loc[p].accessKeyID))
                ELSE InitGoes(p, [built EXCEPT !.actualCreds = <<actual>>,
                                               !.warned = LooksTemporary(actual)],
                              "init_client")
    /\ UNCHANGED <<env, globals, DB, halted, objects, now, uuids, requests>>

\* line 133: S3Client = s3.NewFromConfig(cfg)
InitSetClient(p) ==
    /\ pc[p] = "init_client"
    /\ S3Client' = <<[cfg |-> loc[p].cfg[1]]>>
    /\ loc' = [loc EXCEPT ![p].assigned = TRUE]
    /\ hist' = [hist EXCEPT !.inits = @ + 1]
    /\ pc' = [pc EXCEPT ![p] = "init_uploader"]
    /\ last' = NoEvent
    /\ UNCHANGED <<env, S3Uploader, S3BucketName, S3Region, DB, halted, startup,
                   objects, now, uuids, requests, op, arg, calls>>

\* line 134: S3Uploader = manager.NewUploader(S3Client)
InitSetUploader(p) ==
    /\ pc[p] = "init_uploader"
    /\ S3Uploader' = <<[client |-> S3Client[1]]>>
    /\ InitGoes(p, loc[p], "init_bucket")
    /\ UNCHANGED <<env, S3Client, S3BucketName, S3Region, DB, halted, objects,
                   now, uuids, requests>>

\* line 135: S3BucketName = bucketName
InitSetBucket(p) ==
    /\ pc[p] = "init_bucket"
    /\ S3BucketName' = loc[p].bucketName
    /\ InitGoes(p, loc[p], "init_region")
    /\ UNCHANGED <<env, S3Client, S3Uploader, S3Region, DB, halted, objects,
                   now, uuids, requests>>

\* line 136: S3Region = region
InitSetRegion(p) ==
    /\ pc[p] = "init_region"
    /\ S3Region' = loc[p].region
    /\ InitGoes(p, [loc[p] EXCEPT !.before = IF hist.watch
                                             THEN DOMAIN objects \cap TestKeys
                                             ELSE {}],
                "verify_head")
    /\ UNCHANGED <<env, S3Client, S3Uploader, S3BucketName, DB, halted, objects,
                   now, uuids, requests>>

\* ------------------------------------------------------------------------
\* VerifyS3Connection
\* ------------------------------------------------------------------------

\* line 170: MaxKeys of the listing probe
ListMaxKeys == 1

\* a storage API call as it is logged: the call, its key, its outcome, and
\* the MaxKeys of a listing
ApiCall(api, key, out) ==
    [api |-> api, key |-> key, out |-> out,
     maxKeys |-> IF api = "ListObjectsV2" THEN ListMaxKeys ELSE 0]

\* variant of VerifyErr with one message for every probe
VerifyErr_Generic(probe, bucket, cause) ==
    "cannot access bucket " \o bucket \o ": " \o cause
      \o ". Check bucket name, region, and IAM permissions (s3:ListBucket)"

\* the error VerifyS3Connection returns when the given probe fails with cause
VerifyErr(probe, bucket, cause) ==
    CASE probe = "HeadBucket" ->
           "cannot access bucket " \o bucket \o ": " \o cause
             \o ". Check bucket name, region, and IAM permissions (s3:ListBucket)"
      [] probe = "ListObjectsV2" ->
           "cannot list objects in bucket " \o bucket \o ": " \o cause
             \o ". Check IAM permissions (s3:ListBucket)"
      [] probe = "PresignGetObject" ->
           "cannot generate presigned URLs: " \o cause
             \o ". Check IAM permissions (s3:GetObject)"
      [] probe = "PutObject" ->
           "cannot upload to bucket " \o bucket \o ": " \o cause
             \o ". Check IAM permissions (s3:PutObject)"

\* lines 142-146: InitializeS3 wraps the error of VerifyS3Connection and
\* returns; run holds the result of the verification
VerifyReturns(p, run) ==
    InitReturns(p, run, IF run.verifyErr = NoErr THEN NoErr
                        ELSE "S3 bucket verification failed: " \o run.verifyErr)

\* variant of Probe that goes on to the next probe whatever the outcome
Probe_KeepsGoing(p, api, key, out, next) ==
    InitGoes(p, [loc[p] EXCEPT !.probes = Append(@, ApiCall(api, key, out))], next)

\* one of the four probes: the call is issued; when it fails the
\* verification returns the error of that probe, otherwise it goes on
Probe(p, api, key, out, next) ==
    LET issued == [loc[p] EXCEPT !.probes = Append(@, ApiCall(api, key, out))]
    IN  IF out = "ok"
        THEN InitGoes(p, issued, next)
        ELSE VerifyReturns(p, [issued EXCEPT !.verifyErr = VerifyErr(api, S3BucketName, out)])

\* lines 153-165: the nil check and test 1, HeadBucket
VerifyHeadBucket(p) ==
    /\ pc[p] = "verify_head"
    /\ IF S3Client = Nil
       THEN VerifyReturns(p, [loc[p] EXCEPT !.verifyErr = "S3 client is not initialized"])
       ELSE \E out \in {"ok"} \cup Causes : Probe(p, "HeadBucket", "", out, "verify_list")
    /\ UNCHANGED <<env, globals, DB, halted, objects, now, uuids, requests>>

\* lines 167-175: test 2, ListObjectsV2 with MaxKeys 1
VerifyList(p) ==
    /\ pc[p] = "verify_list"
    /\ \E out \in {"ok"} \cup Causes : Probe(p, "ListObjectsV2", "", out, "verify_presign")
    /\ UNCHANGED <<env, globals, DB, halted, objects, now, uuids, requests>>

\* time.Now().Unix(): the clock never goes back
ClockReads == now..MaxTime

\* lines 177-190: test 3, presign a read of a test key
VerifyPresign(p) ==
    /\ pc[p] = "verify_presign"
    /\ \E t \in ClockReads, out \in {"ok"} \cup Causes :
          /\ now' = t
          /\ Probe(p, "PresignGetObject", TestKey(t), out, "verify_put")
    /\ UNCHANGED <<env, globals, DB, halted, objects, uuids, requests>>

\* the bucket after a successful write of key with metadata meta
Put(objs, key, meta) ==
    [k \in DOMAIN objs \cup {key} |-> IF k = key THEN meta ELSE objs[k]]

\* the bucket after a successful delete of key
Remove(objs, key) == [k \in DOMAIN objs \ {key} |-> objs[k]]

\* lines 192-205: test 4, write the test object
VerifyPut(p) ==
    /\ pc[p] = "verify_put"
    /\ \E t \in ClockReads, out \in {"ok"} \cup Causes :
          /\ now' = t
          /\ Probe(p, "PutObject", TestUploadKey(t), out, "verify_delete")
          /\ objects' = IF out = "ok"
                        THEN Put(objects, TestUploadKey(t), [filename |-> ""])
                        ELSE objects
    /\ UNCHANGED <<env, globals, DB, halted, uuids, requests>>

\* the key VerifyS3Connection deletes: its local testUploadKey, which the
\* run's PutObject probe was issued with
WrittenTestKey(p) == loc[p].probes[Len(loc[p].probes)].key

\* variant of CleanupResult that reports a failed delete
CleanupResult_Strict(out) ==
    IF out = "ok" THEN NoErr ELSE "cannot delete test object: " \o out

\* what VerifyS3Connection returns after the cleanup delete: a failure of
\* the delete is only logged
CleanupResult(out) == NoErr

\* lines 207-219: delete the test object and return
VerifyDelete(p) ==
    /\ pc[p] = "verify_delete"
    /\ \E out \in {"ok"} \cup Causes :
          /\ objects' = IF out = "ok" THEN Remove(objects, WrittenTestKey(p))
                        ELSE objects
          /\ VerifyReturns(p, [loc[p] EXCEPT
                                 !.probes = Append(@, ApiCall("DeleteObject",
                                                              WrittenTestKey(p), out)),
                                 !.verifyErr = CleanupResult(out)])
    /\ UNCHANGED <<env, globals, DB, halted, now, uuids, requests>>

\* ------------------------------------------------------------------------
\* The caller-facing functions
\* ------------------------------------------------------------------------

\* variant of NewUUID that derives the identifier from the clock
NewUUID_FromClock(n) == "00000000-0000-4000-8000-00000000000" \o ToString(now)

\* the n-th identifier of uuid.New().String(), 36 characters
NewUUID(n) == "00000000-0000-4000-8000-00000000000" \o ToString(n)

\* the function returns to its caller, having issued the storage calls cs
Return(p, err, val, cs) ==
    /\ last' = Event("return", p, NoLoc, Pending, err, val, cs)
    /\ Returns(p, val, err)

\* variant of NeedsInit that never initialises
NeedsInit_Never(client) == FALSE

\* the nil check that opens UploadFile, GetPresignedURL, DeleteFile and
\* GetObjectMetadata
NeedsInit(client) == client = Nil

\* variant of UploadKey that keeps the file name in the key
UploadKey_WithName(folder, id, fileName) == folder \o "/" \o id \o "-" \o fileName

\* lines 233-234: fmt.Sprintf("%s/%s%s", folder, uuid.New().String(), ext)
UploadKey(folder, id, fileName) == folder \o "/" \o id \o Ext(fileName)

\* UploadFileLegacy, line 274: the URL form stored before keys were
LegacyURL(bucket, region, s3Key) ==
    "https://" \o bucket \o ".s3." \o region \o ".amazonaws.com/" \o s3Key

\* lines 244-246: the metadata of the uploaded object, "original-filename"
UploadMetadata(fileName) == [filename |-> fileName]

\* line 257
UploadErr(bucket, s3Key, cause) ==
    "S3 upload failed (bucket: " \o bucket \o ", key: " \o s3Key \o "): " \o cause

\* UploadFile, lines 231-264.  A successful return carries the UploadResult:
\* S3Key (val) and OriginalFilename (filename)
UploadFile(p) ==
    /\ pc[p] = "body"
    /\ op[p] = "UploadFile"
    /\ LET s3Key == UploadKey(arg[p].folder, NewUUID(uuids), arg[p].fileName)
       IN  /\ uuids' = uuids + 1
           /\ IF S3Uploader = Nil
              THEN \* method call through a nil *manager.Uploader: the
                   \* goroutine panics; the process goes on if the panic is
                   \* recovered and dies otherwise
                   /\ last' = Event("panic", p, NoLoc, Pending,
                                    "panic: nil pointer dereference", "", <<>>)
                   /\ Ends(p)
                   /\ \E recovered \in BOOLEAN : halted' = ~recovered
                   /\ UNCHANGED <<objects, hist>>
              ELSE \E out \in {"ok"} \cup Causes :
                     /\ halted' = halted
                     /\ IF out = "ok"
                        THEN /\ objects' = Put(objects, s3Key,
                                               UploadMetadata(arg[p].fileName))
                             /\ hist' = [hist EXCEPT !.uploads =
                                           Append(@, [key |-> s3Key,
                                                      fresh |-> s3Key \notin DOMAIN objects,
                                                      filename |-> arg[p].fileName])]
                             /\ last' = [Event("return", p, NoLoc, Pending, NoErr, s3Key,
                                               <<ApiCall("Upload", s3Key, out)>>)
                                           EXCEPT !.filename = arg[p].fileName]
                             /\ Ends(p)
                        ELSE /\ UNCHANGED <<objects, hist>>
                             /\ Return(p, UploadErr(S3BucketName, s3Key, out), "",
                                       <<ApiCall("Upload", s3Key, out)>>)
    /\ UNCHANGED <<env, globals, DB, startup, now, requests>>

\* the outcomes of a HeadObject of key
HeadOutcomes(key) ==
    (IF key \in DOMAIN objects THEN {"ok"} ELSE {"NotFound"}) \cup Causes

\* variant of ValidateKey that lets every key through
ValidateKey_Any(s3Key) == NoErr

\* lines 287-289
ValidateKey(s3Key) == IF s3Key = "" THEN "S3 key cannot be empty" ELSE NoErr

\* variant of HeadResult that reports a failed existence check
HeadResult_Fatal(out) == IF out = "ok" THEN NoErr ELSE "object not found: " \o out

\* lines 294-301: what GetPresignedURL makes of the outcome of HeadObject; the
\* branch taken on an error is empty
HeadResult(out) == NoErr

\* GetPresignedURL, lines 286-301: the key check and the existence probe,
\* whose result is dropped
GetPresignedURLHead(p) ==
    /\ pc[p] = "body"
    /\ op[p] = "GetPresignedURL"
    /\ IF ValidateKey(arg[p].s3Key) # NoErr
       THEN Return(p, ValidateKey(arg[p].s3Key), "", <<>>)
       ELSE \E out \in HeadOutcomes(arg[p].s3Key) :
              LET cs == <<ApiCall("HeadObject", arg[p].s3Key, out)>>
              IN  IF HeadResult(out) # NoErr
                  THEN Return(p, HeadResult(out), "", cs)
                  ELSE /\ calls' = [calls EXCEPT ![p] = cs]
                       /\ pc' = [pc EXCEPT ![p] = "presign"]
                       /\ last' = NoEvent
                       /\ UNCHANGED <<op, arg, loc>>
    /\ UNCHANGED <<env, globals, DB, halted, startup, objects, now, uuids, requests, hist>>

\* the URL the presign client returns
PresignedURL(bucket, region, key) ==
    "https://" \o bucket \o ".s3." \o region \o ".amazonaws.com/" \o key
      \o "?X-Amz-Algorithm=AWS4-HMAC-SHA256&X-Amz-Signature=5d41402abc4b"

\* GetPresignedURL, lines 303-320
GetPresignedURLSign(p) ==
    /\ pc[p] = "presign"
    /\ \E out \in {"ok"} \cup Causes :
          LET cs == Append(calls[p], ApiCall("PresignGetObject", arg[p].s3Key, out))
          IN  IF out = "ok"
              THEN Return(p, NoErr,
                          PresignedURL(S3BucketName, S3Region, arg[p].s3Key), cs)
              ELSE Return(p, "failed to generate presigned URL (bucket: "
                             \o S3BucketName \o ", key: " \o arg[p].s3Key \o "): " \o out
                             \o ". Check AWS IAM permissions for s3:GetObject", "", cs)
    /\ UNCHANGED <<env, globals, DB, halted, startup, objects, now, uuids, requests, hist>>

\* DeleteFile, lines 330-338
DeleteFile(p) ==
    /\ pc[p] = "body"
    /\ op[p] = "DeleteFile"
    /\ \E out \in {"ok"} \cup Causes :
          LET cs == <<ApiCall("DeleteObject", arg[p].s3Key, out)>>
          IN  IF out = "ok"
              THEN /\ objects' = Remove(objects, arg[p].s3Key)
                   /\ hist' = IF hist.watch
                              THEN [hist EXCEPT !.deleted = @ \cup {arg[p].s3Key}]
                              ELSE hist
                   /\ Return(p, NoErr, "", cs)
              ELSE /\ UNCHANGED <<objects, hist>>
                   /\ Return(p, "failed to delete file from S3: " \o out, "", cs)
    /\ UNCHANGED <<env, globals, DB, halted, startup, now, uuids, requests>>

\* lines 390-400: what GetObjectMetadata returns when HeadObject of s3Key came
\* out as out; of the metadata, the original-filename entry
ObjectMetadata(s3Key, out) ==
    IF out = "ok"
    THEN [metadata |-> objects[s3Key].filename, err |-> NoErr]
    ELSE [metadata |-> "", err |-> "failed to get object metadata: " \o out]

\* GetObjectMetadata, lines 385-400; the value returned is the
\* original-filename entry of the metadata
GetObjectMetadata(p) ==
    /\ pc[p] = "body"
    /\ op[p] = "GetObjectMetadata"
    /\ \E out \in HeadOutcomes(arg[p].s3Key) :
          LET r == ObjectMetadata(arg[p].s3Key, out)
          IN  Return(p, r.err, r.metadata, <<ApiCall("HeadObject", arg[p].s3Key, out)>>)
    /\ UNCHANGED <<env, globals, DB, halted, startup, objects, now, uuids, requests, hist>>

\* variant of OriginalFilename that hands out the error text
OriginalFilename_Error(metadata, err) == IF err # NoErr THEN err ELSE metadata

\* lines 405-409: an error of GetObjectMetadata becomes the empty string
OriginalFilename(metadata, err) == IF err # NoErr THEN "" ELSE metadata

\* GetOriginalFilename, lines 404-410, with the GetObjectMetadata it calls
\* (lines 385-400, the storage initialised); it returns a string only
GetOriginalFilename(p) ==
    /\ pc[p] = "body"
    /\ op[p] = "GetOriginalFilename"
    /\ \E out \in HeadOutcomes(arg[p].s3Key) :
          LET r == ObjectMetadata(arg[p].s3Key, out)
          IN  Return(p, NoErr, OriginalFilename(r.metadata, r.err),
                     <<ApiCall("HeadObject", arg[p].s3Key, out)>>)
    /\ UNCHANGED <<env, globals, DB, halted, startup, objects, now, uuids, requests, hist>>

\* ------------------------------------------------------------------------
\* Content types and sizes
\* ------------------------------------------------------------------------

\* variant of NormalizeContentType that trims before it drops the parameters
NormalizeContentType_TrimFirst(contentType) ==
    ToLower(SplitFirst(TrimSpace(contentType), ";"))

\* lines 415-416 and 471-472: drop the parameters, lower the case, trim
NormalizeContentType(contentType) == TrimSpace(ToLower(SplitFirst(contentType, ";")))

\* variant of GetFileTypeFromContentType that looks at the type as given
GetFileTypeFromContentType_Raw(contentType) ==
    IF HasPrefix(contentType, "image/") THEN "image"
    ELSE IF HasPrefix(contentType, "video/") THEN "video"
    ELSE IF HasPrefix(contentType, "audio/") THEN "audio"
    ELSE "file"

\* GetFileTypeFromContentType, lines 413-433
GetFileTypeFromContentType(contentType) ==
    LET ct == NormalizeContentType(contentType)
    IN  IF HasPrefix(ct, "image/") THEN "image"
        ELSE IF HasPrefix(ct, "video/") THEN "video"
        ELSE IF HasPrefix(ct, "audio/") THEN "audio"
        ELSE IF \/ Contains(ct, "pdf") \/ Contains(ct, "word") \/ Contains(ct, "excel")
                \/ Contains(ct, "powerpoint") \/ Contains(ct, "spreadsheet")
                \/ Contains(ct, "presentation")
        THEN "file"
        ELSE "file"

\* GetFolderFromFileType, lines 436-449
GetFolderFromFileType(fileType) ==
    CASE fileType = "image" -> "images"
      [] fileType = "video" -> "videos"
      [] fileType = "audio" -> "audio"
      [] fileType = "file" -> "files"
      [] OTHER -> "files"

\* lines 453-468
allowedTypes ==
    <<"image/jpeg", "image/jpg", "image/png", "image/gif", "image/webp", "image/bmp",
      "image/svg+xml",
      "video/mp4", "video/mpeg", "video/quicktime", "video/x-msvideo", "video/x-ms-wmv",
      "video/webm", "video/ogg", "video/x-matroska",
      "audio/mpeg", "audio/mp3", "audio/wav", "audio/ogg", "audio/webm", "audio/aac",
      "audio/x-m4a", "audio/flac", "audio/x-wav",
      "application/pdf",
      "application/msword",
      "application/vnd.openxmlformats-officedocument.wordprocessingml.document",
      "application/vnd.ms-excel",
      "application/vnd.openxmlformats-officedocument.spreadsheetml.sheet",
      "application/vnd.ms-powerpoint",
      "application/vnd.openxmlformats-officedocument.presentationml.presentation">>

\* ValidateFileType, lines 452-481
ValidateFileType(contentType) ==
    LET ct == NormalizeContentType(contentType)
    IN  \E i \in 1..Len(allowedTypes) : ct = allowedTypes[i]

MB == 1024 * 1024

\* variant of ValidateFileSize that applies the ceiling of videos to every type
ValidateFileSize_OneCeiling(size, fileType) ==
    IF size > 500 * MB
    THEN "file size exceeds maximum allowed size of 500 MB"
    ELSE NoErr

\* variant of ValidateFileSize that turns away a file of exactly the ceiling
ValidateFileSize_Below(size, fileType) ==
    LET maxSize == CASE fileType = "image" -> 10 * MB
                     [] fileType = "video" -> 500 * MB
                     [] fileType = "audio" -> 50 * MB
                     [] OTHER -> 100 * MB
    IN  IF size >= maxSize
        THEN "file size exceeds maximum allowed size of " \o ToString(maxSize \div MB)
               \o " MB"
        ELSE NoErr

\* variant of MaxSizeMB that rounds the ceiling up to the next megabyte
MaxSizeMB_RoundedUp(maxSize) == (maxSize + MB) \div MB

\* line 501: maxSize/(1024*1024), an integer division
MaxSizeMB(maxSize) == maxSize \div MB

\* ValidateFileSize, lines 484-505
ValidateFileSize(size, fileType) ==
    LET maxSize == CASE fileType = "image" -> 10 * MB
                     [] fileType = "video" -> 500 * MB
                     [] fileType = "audio" -> 50 * MB
                     [] fileType = "file" -> 100 * MB
                     [] OTHER -> 100 * MB
    IN  IF size > maxSize
        THEN "file size exceeds maximum allowed size of " \o ToString(MaxSizeMB(maxSize))
               \o " MB"
        ELSE NoErr

\* ------------------------------------------------------------------------
\* Startup and requests
\* ------------------------------------------------------------------------

\* the program serves requests unless its startup is running or has failed
Serving == ~halted /\ startup \notin {"running", "failed"}

\* goroutines are interchangeable: a call takes the first free one
FirstFree(p) == pc[p] = "idle" /\ \A q \in Procs : q < p => pc[q] # "idle"

\* the program calls InitializeDependencies before it serves any request
Startup(p) ==
    /\ ~halted
    /\ requests = 0
    /\ FirstFree(p)
    /\ requests' = 1
    /\ startup' = "running"
    /\ op' = [op EXCEPT ![p] = "InitializeDependencies"]
    /\ pc' = [pc EXCEPT ![p] = "deps"]
    /\ last' = NoEvent
    /\ UNCHANGED <<env, globals, DB, halted, objects, now, uuids, hist, arg, loc, calls>>

\* InitializeDependencies, lines 120-124: config.ConnectDB, which ends the
\* process with log.Fatal when the database cannot be reached
ConnectDB(p) ==
    /\ pc[p] = "deps"
    /\ \E ok \in BOOLEAN :
          IF ok
          THEN /\ DB' = <<"db">>
               /\ halted' = halted
               /\ pc' = [pc EXCEPT ![p] = "init_env"]
               /\ UNCHANGED <<op, arg, loc, calls>>
          ELSE /\ DB' = DB
               /\ halted' = TRUE
               /\ Ends(p)
    /\ last' = NoEvent
    /\ UNCHANGED <<env, globals, startup, objects, now, uuids, requests, hist>>

\* a request handler calls one of the four functions, which begins with the
\* nil check of lines 225-226 (280-281, 324-325, 379-380)
Call(p) ==
    /\ Serving
    /\ requests < MaxRequests
    /\ FirstFree(p)
    /\ requests' = requests + 1
    /\ \E o \in CallerOps :
          /\ op' = [op EXCEPT ![p] = o]
          /\ IF o = "UploadFile"
             THEN \E f \in FileNames, d \in Folders :
                     arg' = [arg EXCEPT ![p] =
                               [NoArg EXCEPT !.fileName = f, !.folder = d,
                                             !.contentType = "image/jpeg", !.size = MB]]
             ELSE \E k \in ArgKeys(o) :
                     arg' = [arg EXCEPT ![p] = [NoArg EXCEPT !.s3Key = k]]
    /\ pc' = [pc EXCEPT ![p] = IF NeedsInit(S3Client) THEN "init_env" ELSE "body"]
    /\ last' = NoEvent
    /\ UNCHANGED <<env, globals, DB, halted, startup, objects, now, uuids, hist, loc, calls>>

Next ==
    \E p \in Procs :
          \/ Startup(p)
          \/ ConnectDB(p)
          \/ Call(p)
          \/ InitEnv(p)
          \/ InitConfig(p)
          \/ InitSetClient(p)
          \/ InitSetUploader(p)
          \/ InitSetBucket(p)
          \/ InitSetRegion(p)
          \/ VerifyHeadBucket(p)
          \/ VerifyList(p)
          \/ VerifyPresign(p)
          \/ VerifyPut(p)
          \/ VerifyDelete(p)
          \/ UploadFile(p)
          \/ GetPresignedURLHead(p)
          \/ GetPresignedURLSign(p)
          \/ DeleteFile(p)
          \/ GetObjectMetadata(p)

Spec == Init /\ [][Next]_vars

TypeOK ==
    /\ now \in 0..MaxTime
    /\ uuids \in 0..(MaxRequests + 1)
    /\ requests \in 0..MaxRequests
    /\ startup \in {"none", "running", "ok", "failed"}
    /\ last.kind \in {"none", "init", "return", "panic", "unset", "rejected", "value",
                     "response"}
    /\ \A p \in Procs : Len(calls[p]) <= 1 /\ Len(loc[p].probes) <= 4

\* ------------------------------------------------------------------------
\* Uploads: the upload endpoint with storage initialised, over a range of
\* file names, content types, sizes and folders
\* ------------------------------------------------------------------------

\* the state InitializeS3 leaves when it has returned nil
Initialized ==
    LET cfg == StaticConfig("ap-south-1", "AKIAQ4STATIC01", "wJalrSECRET")
    IN  /\ env = [v \in EnvVars |->
                    CASE v = "AWS_ACCESS_KEY_ID" -> "AKIAQ4STATIC01"
                      [] v = "AWS_SECRET_ACCESS_KEY" -> "wJalrSECRET"
                      [] v = "AWS_S3_BUCKET_NAME" -> "djjs-media"
                      [] v = "AWS_REGION" -> "ap-south-1"
                      [] OTHER -> ""]
        /\ S3Client = <<[cfg |-> cfg]>>
        /\ S3Uploader = <<[client |-> [cfg |-> cfg]]>>
        /\ S3BucketName = "djjs-media"
        /\ S3Region = "ap-south-1"
        /\ hist = [NoHist EXCEPT !.inits = 1, !.checked = TRUE, !.okInit = TRUE]

UploadInit ==
    /\ Initialized
    /\ DB = Nil
    /\ halted = FALSE
    /\ startup = "none"
    /\ objects = [k \in {OldKey} |-> OldMeta]
    /\ now = 0
    /\ uuids = 0
    /\ requests = 0
    /\ pc = [p \in Procs |-> "idle"]
    /\ op = [p \in Procs |-> "none"]
    /\ arg = [p \in Procs |-> NoArg]
    /\ loc = [p \in Procs |-> NoLoc]
    /\ calls = [p \in Procs |-> <<>>]
    /\ last = NoEvent

UploadFileNames == {"photo.jpg", "IMG_0001.jpg", "README", "archive.tar.gz", "v1.2/notes"}

UploadContentTypes ==
    {"image/png", "Image/JPEG; charset=binary", "video/mp4", "application/pdf",
     "application/zip"}

UploadSizes == {10 * MB, 10 * MB + 1, 100 * MB + 1}

UploadFolders == {"images", "files"}

\* the upload endpoint validates type and size before it delegates to UploadFile
EndpointAccepts(contentType, size) ==
    /\ ValidateFileType(contentType)
    /\ ValidateFileSize(size, GetFileTypeFromContentType(contentType)) = NoErr

\* an upload request: the endpoint rejects it or calls UploadFile, which
\* begins with the nil check of lines 225-226; one upload at a time
UploadRequest(p) ==
    /\ ~halted
    /\ requests < MaxRequests
    /\ \A q \in Procs : pc[q] = "idle"
    /\ FirstFree(p)
    /\ requests' = requests + 1
    /\ \E ct \in UploadContentTypes, n \in UploadSizes :
          IF EndpointAccepts(ct, n)
          THEN \E f \in UploadFileNames, d \in UploadFolders :
                 /\ op' = [op EXCEPT ![p] = "UploadFile"]
                 /\ arg' = [arg EXCEPT ![p] =
                              [NoArg EXCEPT !.fileName = f, !.folder = d,
                                            !.contentType = ct, !.size = n]]
                 /\ pc' = [pc EXCEPT ![p] = IF NeedsInit(S3Client) THEN "init_env"
                                            ELSE "body"]
                 /\ last' = NoEvent
          ELSE /\ last' = [NoEvent EXCEPT !.kind = "rejected", !.proc = p,
                                          !.op = "UploadFile",
                                          !.arg = [NoArg EXCEPT !.contentType = ct,
                                                                !.size = n]]
               /\ UNCHANGED <<op, arg, pc>>
    /\ UNCHANGED <<env, globals, DB, halted, startup, objects, now, uuids, hist, loc, calls>>

UploadNext == \E p \in Procs : UploadRequest(p) \/ UploadFile(p)

UploadSpec == UploadInit /\ [][UploadNext]_vars

\* ------------------------------------------------------------------------
\* Listings: ConvertBranchMediaToPresignedURLs over lists of media records,
\* with the storage initialised or not configured
\* ------------------------------------------------------------------------

MaxMedia == 3

\* a key under which the bucket holds no object
MissingKey == "images/gone.jpg"

MediaKeys == {"", OldKey, MissingKey}

\* the file_url column of a record with the key: the legacy URL of the object
\* for a record written before keys were stored (no key, or the key
\* backfilled), nothing for a record whose object is gone
StoredFileURL(key) ==
    IF key = MissingKey THEN ""
    ELSE LegacyURL("djjs-media", "ap-south-1", OldKey)

\* models.BranchMedia, the fields the conversion reads and writes; URL is not
\* a column
Media(id, key) == [ID |-> id, S3Key |-> key, FileURL |-> StoredFileURL(key), URL |-> ""]

MediaLists ==
    UNION {{[j \in 1..n |-> Media(j, ks[j])] : ks \in [1..n -> MediaKeys]} :
             n \in 0..MaxMedia}

\* the environment with every required setting but the region
Unconfigured ==
    /\ env = [v \in EnvVars |->
                CASE v = "AWS_ACCESS_KEY_ID" -> "AKIAQ4STATIC01"
                  [] v = "AWS_SECRET_ACCESS_KEY" -> "wJalrSECRET"
                  [] v = "AWS_S3_BUCKET_NAME" -> "djjs-media"
                  [] OTHER -> ""]
    /\ S3Client = Nil
    /\ S3Uploader = Nil
    /\ S3BucketName = ""
    /\ S3Region = ""
    /\ hist = NoHist

\* the rows of branch_media the database holds
Rows(db) == db[1].branch_media

ConvertInit ==
    /\ Initialized \/ Unconfigured
    /\ \E l \in MediaLists : DB = <<[branch_media |-> l]>>
    /\ halted = FALSE
    /\ startup = "none"
    /\ objects = [k \in {OldKey} |-> OldMeta]
    /\ now = 0
    /\ uuids = 0
    /\ requests = 0
    /\ pc = [p \in Procs |-> "idle"]
    /\ op = [p \in Procs |-> "none"]
    /\ arg = [p \in Procs |-> NoArg]
    /\ loc = [p \in Procs |-> NoLoc]
    /\ calls = [p \in Procs |-> <<>>]
    /\ last = NoEvent

\* a listing request reads the records of the branch with
\* GetBranchMediaByBranchID (part_001 lines 89-98) and calls
\* ConvertBranchMediaToPresignedURLs with them, part_001 lines 123-124; one
\* listing at a time
ConvertCall(p) ==
    /\ ~halted
    /\ requests < MaxRequests
    /\ FirstFree(p)
    /\ \A q \in Procs : arg[q].i = 0
    /\ requests' = requests + 1
    /\ arg' = [arg EXCEPT ![p] =
                 [NoArg EXCEPT !.mediaList = Rows(DB), !.i = 1, !.live = DOMAIN objects]]
    /\ op' = [op EXCEPT ![p] = "ConvertBranchMediaToPresignedURLs"]
    /\ pc' = [pc EXCEPT ![p] = "convert"]
    /\ last' = NoEvent
    /\ UNCHANGED <<env, globals, DB, halted, startup, objects, now, uuids, hist, loc, calls>>

\* the loop of ConvertBranchMediaToPresignedURLs, part_001 lines 126-136 and
\* 157: at the end of the list it returns result, nil; an item with an empty
\* key is skipped; for any other GetPresignedURL is called, which begins with
\* the nil check of lines 280-281
ConvertLoop(p) ==
    /\ pc[p] = "convert"
    /\ IF arg[p].i > Len(arg[p].mediaList)
       THEN /\ last' = Event("return", p, NoLoc, Pending, NoErr, "", <<>>)
            /\ Ends(p)
       ELSE IF arg[p].mediaList[arg[p].i].S3Key = ""
       THEN /\ arg' = [arg EXCEPT ![p].i = @ + 1]
            /\ last' = NoEvent
            /\ UNCHANGED <<pc, op, loc, calls>>
       ELSE /\ op' = [op EXCEPT ![p] = "GetPresignedURL"]
            /\ arg' = [arg EXCEPT ![p].s3Key = arg[p].mediaList[arg[p].i].S3Key]
            /\ pc' = [pc EXCEPT ![p] = IF NeedsInit(S3Client) THEN "init_env" ELSE "body"]
            /\ last' = NoEvent
            /\ UNCHANGED <<loc, calls>>
    /\ UNCHANGED <<env, globals, DB, halted, startup, objects, now, uuids, requests, hist>>

\* a request that deletes the stored object calls DeleteFile, which begins
\* with the nil check of lines 324-325
DeleteCall(p) ==
    /\ ~halted
    /\ requests < MaxRequests
    /\ FirstFree(p)
    /\ requests' = requests + 1
    /\ op' = [op EXCEPT ![p] = "DeleteFile"]
    /\ arg' = [arg EXCEPT ![p] = [NoArg EXCEPT !.s3Key = OldKey]]
    /\ pc' = [pc EXCEPT ![p] = IF NeedsInit(S3Client) THEN "init_env" ELSE "body"]
    /\ last' = NoEvent
    /\ UNCHANGED <<env, globals, DB, halted, startup, objects, now, uuids, hist, loc, calls>>

ConvertNext ==
    \E p \in Procs :
          \/ ConvertCall(p)
          \/ ConvertLoop(p)
          \/ DeleteCall(p)
          \/ InitEnv(p)
          \/ GetPresignedURLHead(p)
          \/ GetPresignedURLSign(p)
          \/ DeleteFile(p)

ConvertSpec == ConvertInit /\ [][ConvertNext]_vars

\* ------------------------------------------------------------------------
\* Utilities: the functions of s3_service.go that take no storage call,
\* applied to a range of arguments
\* ------------------------------------------------------------------------

\* strings.ToUpper, on ASCII
RECURSIVE ToUpper(_)
ToUpper(s) ==
    IF s = "" THEN ""
    ELSE LET c == SubSeq(s, 1, 1)
             i == Index(LowerCase, c)
         IN  (IF i = 0 THEN c ELSE SubSeq(UpperCase, i, i))
               \o ToUpper(SubSeq(s, 2, Len(s)))

\* media types in their normal form: lower case, no parameters, no white
\* space around them
BaseTypes ==
    {"image/jpeg", "image/svg+xml", "image/tiff", "video/mp4", "video/x-flv",
     "audio/mpeg", "audio/midi", "application/pdf", "application/vnd.ms-excel",
     "application/zip", "text/plain", ""}

Decorations == {"plain", "upper", "param", "space", "tab", "all"}

\* a way a client may write the media type base
Decorate(base, d) ==
    CASE d = "plain" -> base
      [] d = "upper" -> ToUpper(base)
      [] d = "param" -> base \o "; charset=utf-8"
      [] d = "space" -> "  " \o base \o " "
      [] d = "tab" -> "\t" \o base \o "\r\n"
      [] d = "all" -> " " \o ToUpper(base) \o " ;Charset=UTF-8; q=1 "

\* the content types the functions are applied to, each with its normal form
ContentTypeInputs ==
    {[contentType |-> Decorate(b, d), normal |-> b] : b \in BaseTypes, d \in Decorations}
      \cup {[contentType |-> ";image/jpeg", normal |-> ""],
            [contentType |-> "image /jpeg", normal |-> "image /jpeg"],
            [contentType |-> "image/jpeg,image/png", normal |-> "image/jpeg,image/png"],
            [contentType |-> "x-image/png", normal |-> "x-image/png"]}

FileTypes == {"image", "video", "audio", "file", "document", "IMAGE", ""}

Sizes ==
    {-1, 0, 1} \cup {n * MB + d : n \in {10, 50, 100, 500}, d \in {-1, 0, 1}}

\* lines 353-357 and 365-369: the key decoded, or as it is when it does not decode
DecodedKey(key) ==
    LET r == QueryUnescape(key)
    IN  IF r.err = NoErr THEN r.val ELSE key

\* GetS3KeyFromURL, lines 342-375
GetS3KeyFromURL(s3URL) ==
    LET u == IF Contains(s3URL, "?") THEN Split(s3URL, "?")[1] ELSE s3URL
        parts == Split(u, ".amazonaws.com/")
        sep == "/" \o S3BucketName \o "/"
    IN  IF Len(parts) > 1 THEN DecodedKey(parts[2])
        ELSE IF Contains(u, sep) /\ Len(Split(u, sep)) > 1
             THEN DecodedKey(Split(u, sep)[2])
             ELSE ""

\* file names and folders of uploads whose keys are looked up in URLs
URLFileNames ==
    {"photo.jpg", "README", "archive.tar.gz", "notes.c++", "rate.100%", "scan.%41b",
     "what.is?it"}

URLFolders == {"images", "branch media"}

\* a query string as a presigned URL carries it
URLQuery == "?X-Amz-Algorithm=AWS4-HMAC-SHA256&X-Amz-Signature=5d1e"

\* URLs in neither form of the bucket djjs-media
ForeignURLs ==
    {"", "images/photo.jpg", "https://cdn.example.com/images/photo.jpg",
     "https://cdn.example.com/other-bucket/photo.jpg?v=2", "ftp:/djjs-media.jpg"}

\* legacy URLs (UploadFileLegacy, line 274) of keys UploadFile returns, bare
\* and with a query, and the foreign URLs
URLInputs ==
    {[url |-> LegacyURL("djjs-media", "ap-south-1", UploadKey(d, NewUUID(0), f)) \o q,
      key |-> UploadKey(d, NewUUID(0), f), form |-> "legacy"] :
        d \in URLFolders, f \in URLFileNames, q \in {"", URLQuery}}
      \cup {[url |-> u, key |-> "", form |-> "foreign"] : u \in ForeignURLs}

UtilInit ==
    /\ Initialized \/ Unconfigured
    /\ DB = Nil
    /\ halted = FALSE
    /\ startup = "none"
    /\ objects = [k \in {OldKey} |-> OldMeta]
    /\ now = 0
    /\ uuids = 0
    /\ requests = 0
    /\ pc = [p \in Procs |-> "idle"]
    /\ op = [p \in Procs |-> "none"]
    /\ arg = [p \in Procs |-> NoArg]
    /\ loc = [p \in Procs |-> NoLoc]
    /\ calls = [p \in Procs |-> <<>>]
    /\ last = NoEvent

\* a function is applied to a and returns val, changing nothing
Applied(f, a, val) ==
    /\ last' = [NoEvent EXCEPT !.kind = "value", !.op = f, !.arg = a, !.val = val]
    /\ UNCHANGED <<env, globals, DB, halted, startup, objects, now, uuids, requests,
                   hist, pc, op, arg, loc, calls>>

\* GetFileTypeFromContentType and, on its result, GetFolderFromFileType
Classify ==
    \E a \in ContentTypeInputs :
        LET fileType == GetFileTypeFromContentType(a.contentType)
        IN  Applied("GetFileTypeFromContentType", a,
                    [fileType |-> fileType, folder |-> GetFolderFromFileType(fileType)])

FolderOf ==
    \E t \in FileTypes :
        Applied("GetFolderFromFileType", [fileType |-> t], GetFolderFromFileType(t))

CheckType ==
    \E a \in ContentTypeInputs :
        Applied("ValidateFileType", a, ValidateFileType(a.contentType))

CheckSize ==
    \E n \in Sizes, t \in FileTypes :
        Applied("ValidateFileSize", [size |-> n, fileType |-> t], ValidateFileSize(n, t))

KeyFromURL ==
    \E a \in URLInputs : Applied("GetS3KeyFromURL", a, GetS3KeyFromURL(a.url))

UtilNext == Classify \/ FolderOf \/ CheckType \/ CheckSize \/ KeyFromURL

UtilSpec == UtilInit /\ [][UtilNext]_vars

\* ------------------------------------------------------------------------
\* Verification runs watched: the program with a complete configuration, each
\* run of VerifyS3Connection noting the test keys it finds
\* ------------------------------------------------------------------------

VerifyInit ==
    /\ env = [v \in EnvVars |->
                CASE v = "AWS_ACCESS_KEY_ID" -> "AKIAQ4STATIC01"
                  [] v = "AWS_SECRET_ACCESS_KEY" -> "wJalrSECRET"
                  [] v = "AWS_S3_BUCKET_NAME" -> "djjs-media"
                  [] v = "AWS_REGION" -> "ap-south-1"
                  [] OTHER -> ""]
    /\ S3Client = Nil
    /\ S3Uploader = Nil
    /\ S3BucketName = ""
    /\ S3Region = ""
    /\ hist = [NoHist EXCEPT !.watch = TRUE]
    /\ DB = Nil
    /\ halted = FALSE
    /\ startup = "none"
    /\ objects = [k \in {OldKey} |-> OldMeta]
    /\ now = 0
    /\ uuids = 0
    /\ requests = 0
    /\ pc = [p \in Procs |-> "idle"]
    /\ op = [p \in Procs |-> "none"]
    /\ arg = [p \in Procs |-> NoArg]
    /\ loc = [p \in Procs |-> NoLoc]
    /\ calls = [p \in Procs |-> <<>>]
    /\ last = NoEvent

VerifySpec == VerifyInit /\ [][Next]_vars

\* ------------------------------------------------------------------------
\* Life of an object: uploads, metadata reads and deletes of the same keys,
\* the storage initialised
\* ------------------------------------------------------------------------

LifecycleFileNames == {"photo.jpg", "Report Final.PDF", "README"}

\* the key of an object uploaded before the requests of the model begin
EarlierKey == UploadKey("files", NewUUID(0), "Report Final.PDF")

\* the storage initialised; the bucket holds the old object and, in half of the
\* initial states, an object UploadFile has stored
LifecycleInit ==
    LET cfg == StaticConfig("ap-south-1", "AKIAQ4STATIC01", "wJalrSECRET")
    IN  /\ env = [v \in EnvVars |->
                    CASE v = "AWS_ACCESS_KEY_ID" -> "AKIAQ4STATIC01"
                      [] v = "AWS_SECRET_ACCESS_KEY" -> "wJalrSECRET"
                      [] v = "AWS_S3_BUCKET_NAME" -> "djjs-media"
                      [] v = "AWS_REGION" -> "ap-south-1"
                      [] OTHER -> ""]
        /\ S3Client = <<[cfg |-> cfg]>>
        /\ S3Uploader = <<[client |-> [cfg |-> cfg]]>>
        /\ S3BucketName = "djjs-media"
        /\ S3Region = "ap-south-1"
        /\ \E earlier \in BOOLEAN :
              IF earlier
              THEN /\ objects = Put([k \in {OldKey} |-> OldMeta], EarlierKey,
                                    UploadMetadata("Report Final.PDF"))
                   /\ hist = [NoHist EXCEPT !.inits = 1, !.checked = TRUE, !.okInit = TRUE,
                                            !.watch = TRUE,
                                            !.uploads = <<[key |-> EarlierKey, fresh |-> TRUE,
                                                           filename |-> "Report Final.PDF"]>>]
                   /\ uuids = 1
              ELSE /\ objects = [k \in {OldKey} |-> OldMeta]
                   /\ hist = [NoHist EXCEPT !.inits = 1, !.checked = TRUE, !.okInit = TRUE,
                                            !.watch = TRUE]
                   /\ uuids = 0
        /\ DB = Nil
        /\ halted = FALSE
        /\ startup = "none"
        /\ now = 0
        /\ requests = 0
        /\ pc = [p \in Procs |-> "idle"]
        /\ op = [p \in Procs |-> "none"]
        /\ arg = [p \in Procs |-> NoArg]
        /\ loc = [p \in Procs |-> NoLoc]
        /\ calls = [p \in Procs |-> <<>>]
        /\ last = NoEvent

\* the keys UploadFile has returned so far
UploadedKeys == {hist.uploads[j].key : j \in 1..Len(hist.uploads)}

\* a request handler calls one of the functions, with a file to store or with
\* the key of the old object or of an object stored by an upload
LifecycleCall(p) ==
    /\ ~halted
    /\ requests < MaxRequests
    /\ FirstFree(p)
    /\ requests' = requests + 1
    /\ \E o \in {"UploadFile", "DeleteFile", "GetObjectMetadata", "GetOriginalFilename"} :
          /\ op' = [op EXCEPT ![p] = o]
          /\ IF o = "UploadFile"
             THEN \E f \in LifecycleFileNames, d \in {"images", "files"} :
                     arg' = [arg EXCEPT ![p] =
                               [NoArg EXCEPT !.fileName = f, !.folder = d,
                                             !.contentType = "image/jpeg", !.size = MB]]
             ELSE \E k \in {OldKey} \cup UploadedKeys :
                     arg' = [arg EXCEPT ![p] = [NoArg EXCEPT !.s3Key = k]]
    /\ pc' = [pc EXCEPT ![p] = IF NeedsInit(S3Client) THEN "init_env" ELSE "body"]
    /\ last' = NoEvent
    /\ UNCHANGED <<env, globals, DB, halted, startup, objects, now, uuids, hist, loc, calls>>

LifecycleNext ==
    \E p \in Procs :
          \/ LifecycleCall(p)
          \/ UploadFile(p)
          \/ DeleteFile(p)
          \/ GetObjectMetadata(p)
          \/ GetOriginalFilename(p)

LifecycleSpec == LifecycleInit /\ [][LifecycleNext]_vars

\* ------------------------------------------------------------------------
\* Child branches: CreateChildBranchHandler and UpdateChildBranchHandler over
\* the tables branches and child_branches; values are written as strings
\* ------------------------------------------------------------------------

\* the columns of child_branches the handlers name
ChildColumns ==
    {"id", "name", "coordinator_name", "parent_branch_id", "created_on", "created_by",
     "updated_on"}

\* the fields of models.ChildBranch and their columns
ChildFields ==
    [k \in {"ID", "Name", "CoordinatorName", "ParentBranchID", "CreatedOn", "CreatedBy",
            "UpdatedOn"} |->
        CASE k = "ID" -> "id"
          [] k = "Name" -> "name"
          [] k = "CoordinatorName" -> "coordinator_name"
          [] k = "ParentBranchID" -> "parent_branch_id"
          [] k = "CreatedOn" -> "created_on"
          [] k = "CreatedBy" -> "created_by"
          [] OTHER -> "updated_on"]

\* gorm's Schema.LookUpField as Updates uses it on the keys of a map: the
\* column of a column name or of a field name; any other key is taken as the
\* name of a column
LookUpField(name) ==
    IF name \in ChildColumns THEN name
    ELSE IF name \in DOMAIN ChildFields THEN ChildFields[name]
    ELSE name

\* the map m with key k set to v
MapSet(m, k, v) == [x \in DOMAIN m \cup {k} |-> IF x = k THEN v ELSE m[x]]

\* delete(m, k)
MapDelete(m, k) == [x \in DOMAIN m \ {k} |-> m[x]]

\* the rows of a table
Table(name) == DB[1][name]

\* the value time.Now() is stored as
Stamp(t) == "t" \o ToString(t)

\* part_001 line 386, config.DB.Model(&childBranch).Updates(updatedData) on
\* postgres: an error when a key names no column of the table or two keys
\* name the same column, otherwise the row with the columns assigned
UpdatesErr(updatedData) ==
    IF \E k \in DOMAIN updatedData : LookUpField(k) \notin ChildColumns
    THEN "column does not exist"
    ELSE IF \E k1, k2 \in DOMAIN updatedData : k1 # k2 /\ LookUpField(k1) = LookUpField(k2)
         THEN "multiple assignments to same column"
         ELSE NoErr

Updated(row, updatedData) ==
    [c \in DOMAIN row |->
        IF \E k \in DOMAIN updatedData : LookUpField(k) = c
        THEN updatedData[CHOOSE k \in DOMAIN updatedData : LookUpField(k) = c]
        ELSE row[c]]

\* what request bodies of an update hold: pairs of key and value
BodyEntries ==
    {<<"name", "Annex">>, <<"coordinator_name", "Mallory">>,
     <<"CoordinatorName", "Mallory">>, <<"id", "7">>, <<"created_on", "t9">>,
     <<"created_by", "mallory">>, <<"parent_branch_id", "2">>,
     <<"ParentBranchID", "2">>, <<"CreatedBy", "mallory">>, <<"nickname", "x">>}

\* the JSON object with the entries S
Body(S) == [k \in {e[1] : e \in S} |-> (CHOOSE e \in S : e[1] = k)[2]]

UpdateBodies ==
    {Body({e}) : e \in BodyEntries}
      \cup {Body({<<"name", "Annex">>, <<"coordinator_name", "Mallory">>}),
            Body({<<"name", "Annex">>, <<"CoordinatorName", "Mallory">>}),
            Body({<<"parent_branch_id", "2">>, <<"created_by", "mallory">>})}

\* the id parameter of the path
ChildIdParams == {"1", "2", "3", "abc"}

\* models.ChildBranch as bound from the body of a create request
CreateBodies ==
    [id : {"0", "1", "5"}, name : {"Annex"}, parent_branch_id : {"0", "1", "9"},
     coordinator_name : {"", "Mallory"}, created_on : {"t9"}, created_by : {"mallory"},
     updated_on : {""}]

\* strconv.ParseUint(s, 10, 64) succeeds, on short numerals
IsUint(s) == s # "" /\ \A i \in 1..Len(s) : Index("0123456789", SubSeq(s, i, i)) > 0

\* branches 1 and 2; child 1 of branch 1 and child 2 whose parent 9 is gone
ChildInit ==
    /\ Initialized
    /\ DB = <<[branches |->
                 [b \in {"1", "2"} |->
                    [id |-> b, coordinator_name |-> IF b = "1" THEN "Asha" ELSE "Ravi"]],
               child_branches |->
                 [c \in {"1", "2"} |->
                    [id |-> c, name |-> "Hall", coordinator_name |-> "Asha",
                     parent_branch_id |-> IF c = "1" THEN "1" ELSE "9",
                     created_on |-> "t0", created_by |-> "admin", updated_on |-> ""]],
               child_seq |-> 2]>>
    /\ halted = FALSE
    /\ startup = "ok"
    /\ objects = [k \in {OldKey} |-> OldMeta]
    /\ now = 0
    /\ uuids = 0
    /\ requests = 0
    /\ pc = [p \in Procs |-> "idle"]
    /\ op = [p \in Procs |-> "none"]
    /\ arg = [p \in Procs |-> NoArg]
    /\ loc = [p \in Procs |-> NoLoc]
    /\ calls = [p \in Procs |-> <<>>]
    /\ last = NoEvent

\* the request of a handler: the id of the path, the body, and the coordinator
\* read from the parent
ChildArg(id, body) == [id |-> id, body |-> body, coordinator |-> "", i |-> 0]

\* a request reaches one of the two handlers
ChildCall(p) ==
    /\ ~halted
    /\ requests < MaxRequests
    /\ FirstFree(p)
    /\ requests' = requests + 1
    /\ \/ \E body \in CreateBodies :
            /\ op' = [op EXCEPT ![p] = "CreateChildBranchHandler"]
            /\ arg' = [arg EXCEPT ![p] = ChildArg("", body)]
            /\ pc' = [pc EXCEPT ![p] = "create_parent"]
       \/ \E id \in ChildIdParams, body \in UpdateBodies :
            /\ op' = [op EXCEPT ![p] = "UpdateChildBranchHandler"]
            /\ arg' = [arg EXCEPT ![p] = ChildArg(id, body)]
            /\ pc' = [pc EXCEPT ![p] = "update_child"]
    /\ last' = NoEvent
    /\ UNCHANGED <<env, globals, DB, halted, startup, objects, now, uuids, hist, loc, calls>>

\* the handler answers with the status and the error text or the row
Responds(p, status, val) ==
    /\ last' = [NoEvent EXCEPT !.kind = "response", !.proc = p, !.op = op[p],
                               !.arg = arg[p], !.err = status, !.val = val]
    /\ Ends(p)

\* the handler goes on with its locals a
Proceeds(p, a, next) ==
    /\ pc' = [pc EXCEPT ![p] = next]
    /\ arg' = [arg EXCEPT ![p] = a]
    /\ last' = NoEvent
    /\ UNCHANGED <<op, loc, calls>>

\* CreateChildBranchHandler, lines 25-46: the body bound, the parent read and
\* its coordinator taken
CreateReadParent(p) ==
    /\ pc[p] = "create_parent"
    /\ LET childBranch == arg[p].body
       IN  IF childBranch.parent_branch_id = "0"
           THEN Responds(p, "400", "parent_branch_id is required")
           ELSE IF childBranch.parent_branch_id \notin DOMAIN Table("branches")
           THEN Responds(p, "400", "invalid parent_branch_id")
           ELSE Proceeds(p, [arg[p] EXCEPT !.body.coordinator_name =
                               Table("branches")[childBranch.parent_branch_id].coordinator_name],
                         "create_insert")
    /\ UNCHANGED <<env, globals, DB, halted, startup, objects, now, uuids, requests, hist>>

\* lines 48-60 with CreateChildBranch (part_001 lines 259-265): created_on is
\* set, the row inserted under the id given or the next of the sequence, and
\* read again
CreateInsert(p) ==
    /\ pc[p] = "create_insert"
    /\ \E t \in ClockReads :
          LET childBranch == [arg[p].body EXCEPT !.created_on = Stamp(t)]
              seq == IF childBranch.id = "0" THEN DB[1].child_seq + 1 ELSE DB[1].child_seq
              id == IF childBranch.id = "0" THEN ToString(seq) ELSE childBranch.id
          IN  /\ now' = t
              /\ IF id \in DOMAIN Table("child_branches")
                 THEN /\ DB' = [DB EXCEPT ![1].child_seq = seq]
                      /\ Responds(p, "500", "duplicate key value violates unique constraint")
                 ELSE /\ DB' = [DB EXCEPT ![1].child_seq = seq,
                                          ![1].child_branches =
                                             MapSet(@, id, [childBranch EXCEPT !.id = id])]
                      /\ Responds(p, "201", id)
    /\ UNCHANGED <<env, globals, halted, startup, objects, uuids, requests, hist>>

\* UpdateChildBranchHandler, lines 148-166: the id parsed, the body bound, the
\* child read
UpdateReadChild(p) ==
    /\ pc[p] = "update_child"
    /\ IF ~IsUint(arg[p].id)
       THEN Responds(p, "400", "invalid child branch ID")
       ELSE IF arg[p].id \notin DOMAIN Table("child_branches")
       THEN Responds(p, "404", "child branch not found")
       ELSE Proceeds(p, arg[p], "update_parent")
    /\ UNCHANGED <<env, globals, DB, halted, startup, objects, now, uuids, requests, hist>>

\* lines 168-183: the parent of the child read, its coordinator put into the
\* update and the four keys deleted from it
UpdateReadParent(p) ==
    /\ pc[p] = "update_parent"
    /\ LET childBranch == Table("child_branches")[arg[p].id]
       IN  IF childBranch.parent_branch_id \notin DOMAIN Table("branches")
           THEN Responds(p, "400", "invalid parent_branch_id")
           ELSE LET coordinator ==
                        Table("branches")[childBranch.parent_branch_id].coordinator_name
                    updateData ==
                        MapDelete(MapDelete(MapDelete(MapDelete(
                            MapSet(arg[p].body, "coordinator_name", coordinator),
                            "id"), "created_on"), "created_by"), "parent_branch_id")
                IN  Proceeds(p, [arg[p] EXCEPT !.body = updateData,
                                               !.coordinator = coordinator],
                             "update_service")
    /\ UNCHANGED <<env, globals, DB, halted, startup, objects, now, uuids, requests, hist>>

\* lines 185-197 with UpdateChildBranch (part_001 lines 322-390): the child
\* read again, the parent of the update validated if the update names one,
\* updated_on set, the columns written and the row read again
UpdateChildBranch(p) ==
    /\ pc[p] = "update_service"
    /\ \E t \in ClockReads :
          LET id == arg[p].id
              updatedData == MapSet(arg[p].body, "updated_on", Stamp(t))
          IN  /\ now' = t
              /\ IF id \notin DOMAIN Table("child_branches")
                 THEN /\ DB' = DB
                      /\ Responds(p, "400", "child branch not found")
                 ELSE IF /\ "parent_branch_id" \in DOMAIN updatedData
                         /\ updatedData["parent_branch_id"] # "0"
                         /\ updatedData["parent_branch_id"] \notin DOMAIN Table("branches")
                 THEN /\ DB' = DB
                      /\ Responds(p, "400", "invalid parent_branch_id")
                 ELSE IF UpdatesErr(updatedData) # NoErr
                 THEN /\ DB' = DB
                      /\ Responds(p, "400", UpdatesErr(updatedData))
                 ELSE /\ DB' = [DB EXCEPT ![1].child_branches[id] = Updated(@, updatedData)]
                      /\ Responds(p, "200", id)
    /\ UNCHANGED <<env, globals, halted, startup, objects, uuids, requests, hist>>

ChildNext ==
    \E p \in Procs :
          \/ ChildCall(p)
          \/ CreateReadParent(p)
          \/ CreateInsert(p)
          \/ UpdateReadChild(p)
          \/ UpdateReadParent(p)
          \/ UpdateChildBranch(p)

ChildSpec == ChildInit /\ [][ChildNext]_vars

\* ------------------------------------------------------------------------
\* Properties
\* ------------------------------------------------------------------------

Last(seq) == seq[Len(seq)]

\* the latest step was a return of InitializeS3
InitReturned == last.kind = "init"

\* the run that has just returned ended because the given probe failed
FailedAt(api) ==
    /\ InitReturned
    /\ last.run.probes # <<>>
    /\ Last(last.run.probes).api = api
    /\ Last(last.run.probes).out # "ok"
    /\ api # "DeleteObject"

FailingProbes == {"HeadBucket", "ListObjectsV2", "PresignGetObject", "PutObject"}

AllTempUnset == \A v \in Range(tempCredVars) : env[v] = ""

\* C1: when the write probe (PutObject of the test object) fails, InitializeS3
\* returns an error naming PutObject and the client stays unset, so that the
\* next call initialises again; likewise when one of the other probes fails.
C1_FailedProbeLeavesClientUnset ==
    /\ FailedAt("PutObject") => Contains(last.initErr, "PutObject")
    /\ \A api \in FailingProbes : FailedAt(api) => S3Client = Nil

\* C2: the storage client is initialised at most once: at most one goroutine
\* is inside the body of InitializeS3 (client construction and probes) and
\* S3Client is assigned at most once.
InitBodyPcs ==
    {"init_config", "init_client", "init_uploader", "init_bucket", "init_region",
     "verify_head", "verify_list", "verify_presign", "verify_put", "verify_delete"}

C2_InitializedAtMostOnce ==
    /\ Cardinality({p \in Procs : pc[p] \in InitBodyPcs}) <= 1
    /\ hist.inits <= 1

\* C3: once an initialisation attempt has failed, no request issues a storage
\* call for its caller unless some InitializeS3 run has returned nil.
C3_NoStorageOpWithoutSuccessfulInit ==
    (hist.failedInit /\ (last.calls # <<>> \/ \E p \in Procs : calls[p] # <<>>))
        => hist.okInit

\* C4: with a required setting empty, InitializeS3 returns the error of the
\* first missing one (access key id, secret, bucket name, region), no storage
\* call is issued and the four globals stay as they were.
MissingVars == {i \in 1..Len(RequiredVars) : env[RequiredVars[i]] = ""}

FirstMissingVar == RequiredVars[CHOOSE i \in MissingVars : \A j \in MissingVars : i <= j]

C4_MissingConfig ==
    MissingVars # {} =>
        /\ S3Client = Nil /\ S3Uploader = Nil /\ S3BucketName = "" /\ S3Region = ""
        /\ \A p \in Procs :
             /\ loc[p].probes = <<>>
             /\ calls[p] = <<>>
             /\ pc[p] \in {"idle", "deps", "init_env"}
        /\ last.kind \in {"none", "init"}
        /\ InitReturned =>
             /\ last.initErr = FirstMissingVar \o " environment variable is required"
             /\ last.run.probes = <<>>
             /\ last.calls = <<>>

C4_Witness ==
    /\ Cardinality(MissingVars) >= 2
    /\ env["AWS_ACCESS_KEY_ID"] # ""
    /\ InitReturned
    /\ last.op = "UploadFile"

\* C5: InitializeS3 fails at the credential check exactly when the resolved
\* access key id differs from the configured one; a run that failed there has
\* issued no probe and assigned no global; a resolved id that looks temporary
\* only sets the warning: the result of a run that passed the check is that of
\* its verification.
PastCredentialCheck(p) == pc[p] \in InitBodyPcs \ {"init_config"}

FailedCredentialCheck == InitReturned /\ HasPrefix(last.initErr, "credentials mismatch")

C5_CredentialCheck ==
    /\ \A p \in Procs :
         PastCredentialCheck(p) =>
            /\ loc[p].actualCreds # Nil
            /\ loc[p].actualCreds[1].AccessKeyID = loc[p].accessKeyID
            /\ loc[p].warned = (SubSeq(loc[p].accessKeyID, 1, 4) # "AKIA")
    /\ (InitReturned /\ last.run.actualCreds # Nil) =>
          LET actual == last.run.actualCreds[1].AccessKeyID
          IN  /\ FailedCredentialCheck <=> actual # last.run.accessKeyID
              /\ FailedCredentialCheck =>
                    /\ last.run.probes = <<>>
                    /\ last.run.verifyErr = Pending
                    /\ ~last.run.assigned
                    /\ ~last.run.warned
              /\ ~FailedCredentialCheck =>
                    /\ last.run.warned = (SubSeq(actual, 1, 4) # "AKIA")
                    /\ last.run.verifyErr # Pending
                    /\ (last.initErr = NoErr) <=> (last.run.verifyErr = NoErr)
    /\ hist.inits = 0 => S3Client = Nil

\* a run refuses an ambient credential while another run, whose configured id
\* looks temporary, has passed the check with the warning only
C5_Witness ==
    /\ FailedCredentialCheck
    /\ \E q \in Procs : PastCredentialCheck(q) /\ loc[q].warned

\* C6: a caller-facing function never reaches its own storage calls with the
\* client unset; when its InitializeS3 failed it returns that error wrapped,
\* no value, and has issued no storage call.
C6_LazyInit ==
    /\ \A p \in Procs :
         (pc[p] \in {"body", "presign"} \/ calls[p] # <<>>) => S3Client # Nil
    /\ last.calls # <<>> => S3Client # Nil
    /\ (InitReturned /\ last.op \in CallerOps) =>
          IF last.initErr # NoErr
          THEN /\ last.err = "failed to initialize S3: " \o last.initErr
               /\ last.val = ""
               /\ last.calls = <<>>
               /\ pc[last.proc] = "idle"
          ELSE /\ last.err = Pending
               /\ pc[last.proc] = "body"

C6_Witness ==
    /\ InitReturned
    /\ last.op = "GetPresignedURL" /\ last.arg.s3Key # ""
    /\ HasPrefix(last.err, "failed to initialize S3: S3 bucket verification failed")

\* C7: the probes of a verification are issued in the order HeadBucket,
\* ListObjectsV2 (MaxKeys 1), PresignGetObject, PutObject, DeleteObject; a probe
\* is issued only after every earlier one succeeded, a failed probe ends the
\* verification with an error, and the delete is of the key that was written.
ProbeOrder == <<"HeadBucket", "ListObjectsV2", "PresignGetObject", "PutObject", "DeleteObject">>

InProbeOrder(ps) ==
    /\ Len(ps) <= Len(ProbeOrder)
    /\ \A i \in 1..Len(ps) :
         /\ ps[i].api = ProbeOrder[i]
         /\ i < Len(ps) => ps[i].out = "ok"
    /\ Len(ps) >= 2 => ps[2].maxKeys = 1
    /\ Len(ps) = 5 => ps[5].key = ps[4].key

C7_ProbeOrder ==
    /\ \A p \in Procs :
         /\ InProbeOrder(loc[p].probes)
         /\ loc[p].probes # <<>> => Last(loc[p].probes).out = "ok"
         /\ pc[p] = "verify_put" => Len(loc[p].probes) = 3
         /\ pc[p] = "verify_delete" =>
               /\ Len(loc[p].probes) = 4
               /\ Last(loc[p].probes).key \in DOMAIN objects
                    \/ \E q \in Procs \ {p} : loc[q].probes # <<>>
                    \/ hist.okInit
    /\ InitReturned =>
         /\ InProbeOrder(last.run.probes)
         /\ (last.run.probes # <<>> /\ Len(last.run.probes) < 5) =>
               /\ Last(last.run.probes).out # "ok"
               /\ last.run.verifyErr \notin {Pending, NoErr}
               /\ last.initErr # NoErr

C7_Witness == FailedAt("PresignGetObject") /\ Len(last.run.probes) = 3

\* C8: a verification whose first four probes succeeded returns nil, and
\* InitializeS3 succeeds, whether the cleanup delete succeeded or failed.
C8_CleanupFailureIgnored ==
    (InitReturned /\ Len(last.run.probes) = 5) =>
        /\ last.run.verifyErr = NoErr
        /\ last.initErr = NoErr

C8_Witness ==
    /\ InitReturned
    /\ Len(last.run.probes) = 5
    /\ Last(last.run.probes).out # "ok"
    /\ last.initErr = NoErr

\* C9: the error of a failed probe begins with the capability the probe
\* tests, names the permission and the underlying cause, and cannot be taken
\* for the error of another probe: the failing probe can be read off the error.
Capability(api) ==
    CASE api = "HeadBucket" -> "cannot access bucket"
      [] api = "ListObjectsV2" -> "cannot list objects"
      [] api = "PresignGetObject" -> "cannot generate presigned URLs"
      [] api = "PutObject" -> "cannot upload to bucket"

Permission(api) ==
    CASE api = "HeadBucket" -> "s3:ListBucket"
      [] api = "ListObjectsV2" -> "s3:ListBucket"
      [] api = "PresignGetObject" -> "s3:GetObject"
      [] api = "PutObject" -> "s3:PutObject"

C9_DistinctProbeErrors ==
    \A api \in FailingProbes :
        FailedAt(api) =>
            /\ HasPrefix(last.run.verifyErr, Capability(api))
            /\ Contains(last.run.verifyErr, Permission(api))
            /\ Contains(last.run.verifyErr, Last(last.run.probes).out)
            /\ Contains(last.initErr, last.run.verifyErr)
            /\ \A other \in FailingProbes \ {api} :
                 /\ ~HasPrefix(last.run.verifyErr, Capability(other))
                 /\ \A c \in Causes :
                      last.run.verifyErr # VerifyErr(other, S3BucketName, c)

C9_Witness ==
    /\ FailedAt("ListObjectsV2")
    /\ Last(last.run.probes).out = "AccessDenied"
    /\ hist.failedInit

\* C10: once a run of InitializeS3 has passed the check of the required
\* settings, no temporary-credential variable is set, when the configuration
\* is built and ever after; the configuration carries the static key and
\* secret with an empty session token.
C10_TempCredsUnset ==
    /\ hist.checked => AllTempUnset
    /\ \A p \in Procs :
         /\ pc[p] = "init_config" => AllTempUnset
         /\ loc[p].cfg # Nil =>
              /\ loc[p].cfg[1].creds.AccessKeyID = env["AWS_ACCESS_KEY_ID"]
              /\ loc[p].cfg[1].creds.SecretAccessKey = env["AWS_SECRET_ACCESS_KEY"]
              /\ loc[p].cfg[1].creds.SessionToken = ""
    /\ last.run.cfg # Nil => last.run.cfg[1].creds.SessionToken = ""
    /\ S3Client # Nil =>
         /\ S3Client[1].cfg.creds.AccessKeyID = env["AWS_ACCESS_KEY_ID"]
         /\ S3Client[1].cfg.creds.SessionToken = ""

C10_Witness ==
    /\ last.kind = "unset"
    /\ last.unset = Range(tempCredVars)
    /\ AllTempUnset
    /\ pc[last.proc] = "init_config"

\* C11: no two successful uploads return the same key, also with identical
\* inputs; a key returned by an upload held no object before the upload, and
\* the object under it is the uploaded one for as long as it is there: no later
\* upload and no verification test object is written under the key.
C11_UniqueKeys ==
    LET ups == hist.uploads
    IN  /\ \A i, j \in 1..Len(ups) : ups[i].key = ups[j].key => i = j
        /\ \A i \in 1..Len(ups) :
             /\ ups[i].fresh
             /\ ups[i].key \notin TestKeys
             /\ ups[i].key # OldKey
             /\ ups[i].key \in DOMAIN objects =>
                   objects[ups[i].key].filename \in FileNames \cup UploadFileNames
        /\ (last.kind = "return" /\ last.op = "UploadFile" /\ last.err = NoErr) =>
             /\ ups # <<>>
             /\ last.val = ups[Len(ups)].key

\* two uploads with identical inputs have returned, and a verification has
\* written its test object beside the uploaded ones
C11_Witness ==
    /\ Len(hist.uploads) >= 2
    /\ \E k \in DOMAIN objects : k \in TestKeys
    /\ \A i \in 1..Len(hist.uploads) : hist.uploads[i].key \in DOMAIN objects

\* the latest step was a successful return of UploadFile
Uploaded == last.kind = "return" /\ last.op = "UploadFile" /\ last.err = NoErr

\* the parts of the key an upload returned: what follows "<folder>/", split
\* after the 36 characters of the identifier
KeyId == SubSeq(last.val, Len(last.arg.folder) + 2, Len(last.arg.folder) + 37)

KeyRest == SubSeq(last.val, Len(last.arg.folder) + 38, Len(last.val))

HasSuffix(s, suffix) ==
    /\ Len(s) >= Len(suffix)
    /\ SubSeq(s, Len(s) - Len(suffix) + 1, Len(s)) = suffix

\* the final slash-separated element of path
FinalElement(path) == SubSeq(path, LastIndex(path, "/") + 1, Len(path))

C13_KeyIndependentOfFilename ==
    Uploaded =>
        \A f \in UploadFileNames : UploadKey(last.arg.folder, KeyId, f) = last.val

DotSuffix(f) ==
    LET e == FinalElement(f)
    IN  {SubSeq(e, i, Len(e)) :
           i \in {i \in 1..Len(e) : /\ SubSeq(e, i, i) = "."
                                    /\ \A j \in (i + 1)..Len(e) : SubSeq(e, j, j) # "."}}

SameExtension(f, g) == DotSuffix(f) = DotSuffix(g)

\* C13: the key of an upload is the key any other file name with the same
\* extension would have given, folder and identifier being the same: of the
\* file name the key shows the extension and nothing else.
C13_KeyShowsExtensionOnly ==
    Uploaded =>
        \A f \in UploadFileNames :
            SameExtension(f, last.arg.fileName) =>
                UploadKey(last.arg.folder, KeyId, f) = last.val

C13_Witness ==
    /\ Uploaded
    /\ last.arg.fileName = "IMG_0001.jpg"
    /\ last.val = UploadKey(last.arg.folder, KeyId, "photo.jpg")

WithinLimits(a) ==
    LET ct == NormalizeContentType(a.contentType)
    IN  /\ ValidateFileType(a.contentType)
        /\ ValidateFileSize(a.size, GetFileTypeFromContentType(a.contentType)) = NoErr
        /\ ct \in Range(allowedTypes)
        /\ HasPrefix(ct, "image/") => a.size <= 10 * 1024 * 1024
        /\ HasPrefix(ct, "video/") => a.size <= 500 * 1024 * 1024
        /\ HasPrefix(ct, "audio/") => a.size <= 50 * 1024 * 1024
        /\ a.size <= 500 * 1024 * 1024
        /\ HasPrefix(ct, "application/") => a.size <= 100 * 1024 * 1024

UploadFailed ==
    /\ last.kind = "return" /\ last.op = "UploadFile"
    /\ last.calls # <<>> /\ last.calls[1].out # "ok"

\* C15: when the storage write of UploadFile fails, UploadFile returns the
\* error naming the configured bucket and the generated key and wrapping the
\* cause, and no result: the key is handed to no caller and nothing is stored
\* under it.
C15_FailedUpload ==
    UploadFailed =>
        /\ last.err = "S3 upload failed (bucket: " \o env["AWS_S3_BUCKET_NAME"]
                        \o ", key: " \o last.calls[1].key \o "): " \o last.calls[1].out
        /\ last.val = ""
        /\ last.filename = ""
        /\ last.calls[1].key \notin DOMAIN objects
        /\ \A i \in 1..Len(hist.uploads) : hist.uploads[i].key # last.calls[1].key

\* a call of GetPresignedURL with the key k has returned to its caller,
\* either out of the failed initialisation it ran ("init") or later
Presigned(k) ==
    /\ last.kind \in {"init", "return"}
    /\ last.op = "GetPresignedURL"
    /\ last.arg.s3Key = k
    /\ last.err # Pending

\* the calls of kind api among the storage calls of the latest event
CallsOf(api) == {i \in 1..Len(last.calls) : last.calls[i].api = api}

NoCallForEmptyKey ==
    \A i \in CallsOf("HeadObject") \cup CallsOf("PresignGetObject") :
        last.calls[i].key # ""

\* C16 as claimed: GetPresignedURL with an empty key returns "S3 key cannot be
\* empty" and no URL in every state of the storage client, and issues no
\* HeadObject or presign call for the key.
C16_EmptyKeyRejected ==
    Presigned("") =>
        /\ last.err = "S3 key cannot be empty"
        /\ last.val = ""
        /\ NoCallForEmptyKey

\* C16: GetPresignedURL with an empty key returns no URL and issues no
\* HeadObject or presign call for the key; it returns "S3 key cannot be empty"
\* when the storage client was set or the initialisation the call ran
\* succeeded, and the wrapped initialisation error when that initialisation
\* failed.
C16_EmptyKeyRejectedAfterInit ==
    Presigned("") =>
        /\ last.val = ""
        /\ NoCallForEmptyKey
        /\ IF last.kind = "init"
           THEN /\ last.initErr # NoErr
                /\ last.err = "failed to initialize S3: " \o last.initErr
           ELSE /\ last.err = "S3 key cannot be empty"
                /\ last.calls = <<>>
                /\ S3Client # Nil

\* the empty key is rejected by a call that found the client unset and a
\* configuration complete enough for the initialisation to be attempted
C16_Witness ==
    /\ Presigned("")
    /\ last.err = "S3 key cannot be empty"
    /\ hist.inits >= 1

\* the key the latest GetPresignedURL was called with
SignedKey == last.arg.s3Key

\* C17: GetPresignedURL with a non-empty key and the client set returns what
\* the presign call gives whatever the outcome of HeadObject: the URL for the
\* key (also when no object is stored under it) or the signing error; the
\* only errors GetPresignedURL returns are the initialisation failure, the
\* empty key and the signing failure.
C17_ExistenceProbeSwallowed ==
    /\ (last.kind = "return" /\ Presigned(SignedKey) /\ SignedKey # "") =>
         /\ Len(last.calls) = 2
         /\ last.calls[1].api = "HeadObject" /\ last.calls[1].key = SignedKey
         /\ last.calls[2].api = "PresignGetObject" /\ last.calls[2].key = SignedKey
         /\ IF last.calls[2].out = "ok"
            THEN /\ last.err = NoErr
                 /\ last.val = PresignedURL(S3BucketName, S3Region, SignedKey)
            ELSE /\ HasPrefix(last.err, "failed to generate presigned URL (bucket: ")
                 /\ Contains(last.err, ", key: " \o SignedKey \o "): " \o last.calls[2].out)
                 /\ last.val = ""
    /\ (Presigned(SignedKey) /\ last.err # NoErr) =>
         \/ last.kind = "init" /\ last.err = "failed to initialize S3: " \o last.initErr
         \/ SignedKey = "" /\ last.err = "S3 key cannot be empty"
         \/ /\ last.calls # <<>>
            /\ last.calls[Len(last.calls)].api = "PresignGetObject"
            /\ last.calls[Len(last.calls)].out # "ok"

\* a URL is returned for a key whose object has been deleted
C17_Witness ==
    /\ last.kind = "return" /\ Presigned(OldKey)
    /\ last.err = NoErr
    /\ last.val # ""
    /\ last.calls[1].out = "NotFound"
    /\ OldKey \notin DOMAIN objects

\* ConvertBranchMediaToPresignedURLs has returned
Listed == last.kind = "return" /\ last.op = "ConvertBranchMediaToPresignedURLs"

\* GetPresignedURL has returned to ConvertBranchMediaToPresignedURLs
ItemReturned ==
    /\ last.kind \in {"init", "return"}
    /\ last.op = "GetPresignedURL"
    /\ last.arg.i > 0

\* C18: ConvertBranchMediaToPresignedURLs never fails as a whole: it returns a
\* nil error and a list after it has gone through every item of its input,
\* and when GetPresignedURL fails for an item (initialisation or signing
\* error) it goes on with the next item, the list built so far unchanged.
C18_ListingNeverFails ==
    /\ Listed =>
         /\ last.err = NoErr
         /\ last.arg.i = Len(last.arg.mediaList) + 1
         /\ Len(last.arg.result) <= Len(last.arg.mediaList)
    /\ \A p \in Procs :
         arg[p].i > 0 =>
            /\ op[p] \in {"ConvertBranchMediaToPresignedURLs", "GetPresignedURL"}
            /\ pc[p] # "idle"
            /\ arg[p].i <= Len(arg[p].mediaList) + 1
    /\ ItemReturned =>
         /\ pc[last.proc] = "convert"
         /\ arg[last.proc].mediaList = last.arg.mediaList
         /\ arg[last.proc].i = last.arg.i + 1
         /\ last.err # NoErr => arg[last.proc].result = last.arg.result

\* the first of three items failed and the third is listed
C18_Witness ==
    /\ Listed
    /\ Len(last.arg.mediaList) = 3
    /\ last.arg.mediaList[1].S3Key # ""
    /\ Len(last.arg.result) = 1
    /\ last.arg.result[1].ID = 3

\* the positions of the input that the listing keeps: a non-empty key, a URL
\* returned by GetPresignedURL, and a signature in the URL
Kept ==
    {j \in 1..Len(last.arg.mediaList) :
        /\ last.arg.mediaList[j].S3Key # ""
        /\ \E u \in last.arg.signed :
              /\ u[1] = j
              /\ Contains(u[2], "X-Amz-Signature") \/ Contains(u[2], "Signature=")}

\* C19: the list ConvertBranchMediaToPresignedURLs returns is its input in
\* input order without the skipped items: it holds exactly the items with a
\* non-empty key for which GetPresignedURL returned a URL that contains a
\* signature parameter, each once, in the order of the input, each with that
\* URL in FileURL and URL and otherwise unchanged.
C19_ListingIsFilteredInput ==
    Listed =>
        LET in == last.arg.mediaList
            out == last.arg.result
        IN  /\ Len(out) = Cardinality(Kept)
            /\ Len(out) <= Len(in)
            /\ {out[j].ID : j \in 1..Len(out)} = Kept
            /\ \A j, k \in 1..Len(out) : j < k => out[j].ID < out[k].ID
            /\ \A j \in 1..Len(out) :
                  /\ <<out[j].ID, out[j].URL>> \in last.arg.signed
                  /\ out[j] = [in[out[j].ID] EXCEPT !.FileURL = out[j].URL,
                                                    !.URL = out[j].URL]
                  /\ Contains(out[j].URL, out[j].S3Key)

\* of three records the second has an empty key: the two others are listed
C19_Witness ==
    /\ Listed
    /\ Len(last.arg.mediaList) = 3
    /\ last.arg.mediaList[2].S3Key = ""
    /\ Len(last.arg.result) = 2
    /\ last.arg.result[1].ID = 1
    /\ last.arg.result[2].ID = 3
    /\ last.arg.result[1].URL # ""

\* C20: the list ConvertBranchMediaToPresignedURLs returns holds no record
\* whose key held no object in the bucket when it was called, and the call
\* returns a nil error.
C20_MissingObjectsOmitted ==
    Listed =>
        /\ last.err = NoErr
        /\ \A j \in 1..Len(last.arg.result) :
              last.arg.result[j].S3Key \in last.arg.live

\* the record carries no presigned URL: no URL field and no signature in its
\* file_url column
Unsigned(media) ==
    /\ media.URL = ""
    /\ ~Contains(media.FileURL, "X-Amz-Signature")
    /\ ~Contains(media.FileURL, "Signature=")

Value(f) == last.kind = "value" /\ last.op = f

\* the category the claim gives a type in normal form
CategoryOf(normal) ==
    IF HasPrefix(normal, "image/") THEN "image"
    ELSE IF HasPrefix(normal, "video/") THEN "video"
    ELSE IF HasPrefix(normal, "audio/") THEN "audio"
    ELSE "file"

\* C22: GetFileTypeFromContentType returns image, video or audio when the
\* content type without parameters, in lower case and trimmed begins with
\* "image/", "video/" or "audio/", and the catch-all category "file"
\* otherwise; GetFolderFromFileType maps image, video, audio to "images",
\* "videos", "audio" and every other value to "files", so the folder of a
\* classified type is one of these four.
C22_ClassifierTotal ==
    /\ Value("GetFileTypeFromContentType") =>
         /\ last.val.fileType = CategoryOf(last.arg.normal)
         /\ last.val.fileType \in {"image", "video", "audio", "file"}
         /\ last.val.folder \in {"images", "videos", "audio", "files"}
         /\ (last.val.folder = "images") <=> (last.val.fileType = "image")
         /\ (last.val.folder = "videos") <=> (last.val.fileType = "video")
         /\ (last.val.folder = "audio") <=> (last.val.fileType = "audio")
    /\ Value("GetFolderFromFileType") =>
         last.val = CASE last.arg.fileType = "image" -> "images"
                      [] last.arg.fileType = "video" -> "videos"
                      [] last.arg.fileType = "audio" -> "audio"
                      [] OTHER -> "files"

\* an upper-case type with parameters is classified as a video
C22_Witness ==
    /\ Value("GetFileTypeFromContentType")
    /\ last.arg.contentType = " VIDEO/MP4 ;Charset=UTF-8; q=1 "
    /\ last.val = [fileType |-> "video", folder |-> "videos"]

\* C23: ValidateFileType returns true exactly for the content types whose
\* normal form (the text before the first ";", in lower case, trimmed) is in
\* the allow-list; parameters, letter case and surrounding white space of the
\* input make no difference.
C23_AllowListMembership ==
    Value("ValidateFileType") =>
        /\ last.val = (last.arg.normal \in Range(allowedTypes))
        /\ last.arg.contentType \in {"image/jpeg", "image/jpeg; charset=utf-8"}
             => last.val = TRUE
        /\ last.arg.normal = "application/zip" => last.val = FALSE
        /\ Len(allowedTypes) = 31

\* an allowed type written in upper case, with parameters and white space
\* around it, is accepted
C23_Witness ==
    /\ Value("ValidateFileType")
    /\ last.arg.contentType = " APPLICATION/VND.MS-EXCEL ;Charset=UTF-8; q=1 "
    /\ last.val = TRUE

\* the ceiling in bytes the claim gives a category
Ceiling(fileType) ==
    CASE fileType = "image" -> 10 * 1024 * 1024
      [] fileType = "video" -> 500 * 1024 * 1024
      [] fileType = "audio" -> 50 * 1024 * 1024
      [] OTHER -> 100 * 1024 * 1024

TooLarge(err) == HasPrefix(err, "file size exceeds maximum allowed size of ")

\* C24: ValidateFileSize returns no error for a size up to and including the
\* ceiling of the category and the too-large error for any greater size, the
\* ceilings being 10 MB for image, 500 MB for video, 50 MB for audio and
\* 100 MB for file and for any other category; every ceiling is below 2^31
\* and so within the range of a 64-bit signed integer.
C24_SizeCeilings ==
    Value("ValidateFileSize") =>
        /\ (last.arg.size <= Ceiling(last.arg.fileType)) => last.val = NoErr
        /\ (last.arg.size > Ceiling(last.arg.fileType)) => TooLarge(last.val)
        /\ Ceiling(last.arg.fileType) \in {10485760, 524288000, 52428800, 104857600}
        /\ Ceiling(last.arg.fileType) \in 0..2147483647

\* a video of exactly 500 MB passes
C24_Witness ==
    /\ Value("ValidateFileSize")
    /\ last.arg = [size |-> 524288000, fileType |-> "video"]
    /\ last.val = NoErr

\* the figure the claim gives a category
CeilingMB(fileType) ==
    CASE fileType = "image" -> "10"
      [] fileType = "video" -> "500"
      [] fileType = "audio" -> "50"
      [] OTHER -> "100"

\* C29: the limit in the too-large error of ValidateFileSize is the ceiling
\* of the category in whole megabytes: 10 for image, 500 for video, 50 for
\* audio, 100 for file and for any other category, the division by 1024*1024
\* leaving no remainder.
C29_ReportedLimit ==
    (Value("ValidateFileSize") /\ last.val # NoErr) =>
        /\ last.val = "file size exceeds maximum allowed size of "
                        \o CeilingMB(last.arg.fileType) \o " MB"
        /\ Ceiling(last.arg.fileType) % (1024 * 1024) = 0
        /\ ToString(Ceiling(last.arg.fileType) \div (1024 * 1024))
             = CeilingMB(last.arg.fileType)

\* an audio file one byte over 50 MB is turned away with the figure 50
C29_Witness ==
    /\ Value("ValidateFileSize")
    /\ last.arg = [size |-> 52428801, fileType |-> "audio"]
    /\ last.val = "file size exceeds maximum allowed size of 50 MB"

\* the statements of InitializeS3 and VerifyS3Connection that follow the
\* assignment of S3Client
AfterClientSet ==
    {"init_uploader", "init_bucket", "init_region",
     "verify_head", "verify_list", "verify_presign", "verify_put", "verify_delete"}

\* C25: a request that is past the nil check of UploadFile, GetPresignedURL
\* or DeleteFile finds the uploader, the bucket name and the region set, and
\* no InitializeS3 run is between its assignment of S3Client and the end of
\* its verification probes.
C25_ClientSetMeansReady ==
    \A p \in Procs :
        (op[p] \in {"UploadFile", "GetPresignedURL", "DeleteFile"}
           /\ pc[p] \in {"body", "presign"}) =>
            /\ S3Uploader # Nil
            /\ S3BucketName # ""
            /\ S3Region # ""
            /\ \A q \in Procs : pc[q] \notin AfterClientSet

\* the latest step was the return of a verification that wrote its test
\* object and tried to delete it
CleanedUp == InitReturned /\ Len(last.run.probes) = 5

\* C26: a verification whose cleanup delete succeeded leaves the bucket with
\* the test key as it found it when it began (run.before: the test keys
\* present then), one whose delete failed leaves at most its test object behind, and
\* every object stored through UploadFile is still the one uploaded.
C26_VerificationLeavesBucket ==
    /\ CleanedUp =>
         LET testUploadKey == last.run.probes[4].key
         IN  IF last.run.probes[5].out = "ok"
             THEN (testUploadKey \in DOMAIN objects) <=> (testUploadKey \in last.run.before)
             ELSE testUploadKey \in TestKeys
    /\ \A j \in 1..Len(hist.uploads) :
         /\ hist.uploads[j].key \notin TestKeys
         /\ hist.uploads[j].key \in DOMAIN objects
         /\ objects[hist.uploads[j].key].filename \in FileNames

\* the file name UploadFile was called with when it returned key
UploadedAs(key) ==
    LET j == CHOOSE j \in 1..Len(hist.uploads) : hist.uploads[j].key = key
    IN  hist.uploads[j].filename

\* a metadata read of a key UploadFile has returned comes back
ReadsUploaded(f) ==
    /\ last.kind = "return"
    /\ last.op = f
    /\ last.arg.s3Key \in UploadedKeys

\* after a successful DeleteFile(k), GetObjectMetadata(k) returns an error and
\* GetOriginalFilename(k) the empty string
GoneAfterDelete ==
    /\ (ReadsUploaded("GetObjectMetadata") /\ last.arg.s3Key \in hist.deleted)
          => last.err # NoErr
    /\ (ReadsUploaded("GetOriginalFilename") /\ last.arg.s3Key \in hist.deleted)
          => last.val = ""

\* a step in which DeleteFile(k) returns changes no object of another key
DeleteTouchesOnlyItsKey ==
    (last'.kind = "return" /\ last'.op = "DeleteFile")
        => \A k \in DOMAIN objects \ {last'.arg.s3Key} :
              k \in DOMAIN objects' /\ objects'[k] = objects[k]

\* C27 as stated: after a successful UploadFile of filename returning k,
\* GetOriginalFilename(k) returns filename as long as no DeleteFile(k) has
\* happened; after a successful DeleteFile(k) the metadata reads of k fail or
\* are empty; DeleteFile(k) removes no object of another key
C27_LifecycleAgrees ==
    /\ [](/\ (ReadsUploaded("GetOriginalFilename") /\ last.arg.s3Key \notin hist.deleted)
               => last.val = UploadedAs(last.arg.s3Key)
          /\ GoneAfterDelete)
    /\ [][DeleteTouchesOnlyItsKey]_vars

\* C27 amended: GetOriginalFilename(k) returns filename as long as no
\* DeleteFile(k) has succeeded and its metadata read succeeds, and the empty
\* string when the read fails; the rest as stated
C27_LifecycleAgreesWhenReadable ==
    /\ [](/\ (ReadsUploaded("GetOriginalFilename") /\ last.arg.s3Key \notin hist.deleted)
               => last.val = IF last.calls[1].out = "ok"
                             THEN UploadedAs(last.arg.s3Key)
                             ELSE ""
          /\ GoneAfterDelete)
    /\ [][DeleteTouchesOnlyItsKey]_vars

\* with two objects stored by UploadFile in the bucket, the file name of one
\* of them is read back
C27_Witness ==
    /\ ReadsUploaded("GetOriginalFilename")
    /\ last.arg.s3Key \notin hist.deleted
    /\ last.calls[1].out = "ok"
    /\ last.val = UploadedAs(last.arg.s3Key)
    /\ last.val \in LifecycleFileNames
    /\ Len(hist.uploads) = 2

\* C28: GetS3KeyFromURL returns k for the legacy URL of every key k UploadFile
\* can return, with or without a query string, and the empty string for a URL
\* in neither form of the configured bucket, the storage initialised or not
C28_LegacyURLInverted ==
    Value("GetS3KeyFromURL") =>
        last.val = IF last.arg.form = "legacy" THEN last.arg.key ELSE ""

\* every child branch whose parent exists carries the coordinator of its parent
CoordinatorInherited ==
    \A c \in DOMAIN Table("child_branches") :
        LET child == Table("child_branches")[c]
        IN  child.parent_branch_id \in DOMAIN Table("branches")
                => child.coordinator_name =
                     Table("branches")[child.parent_branch_id].coordinator_name

\* a step in which the update handler answers leaves id, created_on,
\* created_by and parent_branch_id of the child as they were, and changes
\* nothing when the child or its parent does not exist
UpdateKeepsIdentity ==
    (last'.kind = "response" /\ last'.op = "UpdateChildBranchHandler")
        => LET id == last'.arg.id
               before == Table("child_branches")
               after == Table("child_branches")'
           IN  /\ id \in DOMAIN before
                    => /\ id \in DOMAIN after
                       /\ \A c \in {"id", "created_on", "created_by", "parent_branch_id"} :
                             after[id][c] = before[id][c]
               /\ (\/ id \notin DOMAIN before
                   \/ before[id].parent_branch_id \notin DOMAIN Table("branches"))
                    => last'.err # "200" /\ DB' = DB

\* C30: through the create and update handlers a child branch always carries
\* the coordinator name of its parent, whatever the body supplies; an update
\* never changes id, created_on, created_by or parent_branch_id and is
\* rejected without change when the child or its parent does not exist
C30_ChildFollowsParent ==
    []CoordinatorInherited /\ [][UpdateKeepsIdentity]_vars

====
